---- MODULE Spec2Model ----
(***************************************************************************)
(* Verification model of the Dot smart-city backend.                       *)
(*                                                                         *)
(* Part I  : the MCP orchestrator (app/orchestrator/mcp_server.py), the    *)
(*           manual trigger routes (app/main.py) and the refresh cycle     *)
(*           (app/api/routes/health.py), as asyncio tasks interleaved at   *)
(*           their suspension points.                                      *)
(***************************************************************************)
EXTENDS Integers, Sequences, FiniteSets, TLC

(***************************************************************************)
(* Bounds                                                                  *)
(***************************************************************************)
\* largest value datetime.utcnow() takes in the orchestrator model
MaxClock == 1

\* calls of ingest_all_sources in the ingestion model
MaxCalls == 2

\* raw documents ingested in the fusion model, over all four collections
MaxRaw == 2

\* runs of process_raw_data in the fusion model
MaxRuns == 2

\* the last minute the fusion model's clock reaches
MaxTime == 5

\* Python's None in an integer, datetime or coordinate field
None == -1

(***************************************************************************)
(* Part I : orchestrator state                                             *)
(***************************************************************************)
VARIABLES
    ingestion_in_progress,   \* MCPOrchestratorServer.ingestion_in_progress
    cleaning_in_progress,    \* MCPOrchestratorServer.cleaning_in_progress
    prediction_in_progress,  \* MCPOrchestratorServer.prediction_in_progress
    last_ingestion_time,     \* Optional[datetime]
    last_cleaning_time,      \* Optional[datetime]
    last_prediction_time,    \* Optional[datetime]
    utcnow,                  \* the wall clock read by datetime.utcnow()
    pc,                      \* per task: the suspension point it is parked at
    entry,                   \* per task: the coroutine the task is running
    trace,                   \* per task: what its current invocation did so far
    raw_traffic_511,         \* db.raw_traffic_511, in insertion order
    raw_traffic_dot,         \* db.raw_traffic_dot
    raw_transit_mta,         \* db.raw_transit_mta
    raw_air_quality,         \* db.raw_air_quality
    segments_state,          \* db.segments_state
    zones_state,             \* db.zones_state
    lastOp,                  \* the last operation applied to the store
    fusion_runs,             \* how many times process_raw_data has run
    fusion_result,           \* what the last process_raw_data returned
    ingestion_call,          \* the last ingest_all_sources call and its result
    predicted_segments,      \* db.predicted_segments
    model_trained            \* a trained model file is on disk

orchVars == <<ingestion_in_progress, cleaning_in_progress, prediction_in_progress,
              last_ingestion_time, last_cleaning_time, last_prediction_time,
              utcnow, pc, entry, trace>>

dbVars == <<raw_traffic_511, raw_traffic_dot, raw_transit_mta, raw_air_quality,
            segments_state, zones_state, lastOp, fusion_runs, fusion_result,
            ingestion_call, predicted_segments, model_trained>>

vars == <<orchVars, dbVars>>

\* the three APScheduler jobs added by setup_scheduled_cycles (job ids)
Jobs == {"mcp_ingestion_cycle", "mcp_cleaning_cycle", "mcp_forecast_jobs"}

\* one in-flight operator request and the background task of /api/health/refresh
Tasks == Jobs \cup {"request", "background"}

Stages == {"ingestion", "cleaning", "prediction"}

\* the coroutine each job runs (add_job's first argument)
JobFunc(j) ==
    CASE j = "mcp_ingestion_cycle" -> "schedule_run_cycles"
      [] j = "mcp_cleaning_cycle"  -> "run_after_ingestion"
      [] j = "mcp_forecast_jobs"   -> "run_forecast_jobs"

\* the orchestrator coroutine each route of main.py awaits
Routes == {"run_ingestion_cycle", "run_after_ingestion", "run_forecast_jobs",
           "orchestrate_agents"}

EntryPoints(t) ==
    IF t \in Jobs THEN {JobFunc(t)}
    ELSE IF t = "request" THEN Routes
    ELSE {"run_refresh_cycle"}

\* the body of a stage is the agent call: ingest_all_sources, process_raw_data,
\* generate_predictions; a task parked inside it has one of these labels
BodyLabel(s) ==
    CASE s = "ingestion"  -> "ingest_all_sources"
      [] s = "cleaning"   -> "process_raw_data"
      [] s = "prediction" -> "generate_predictions"

\* The orchestrator's fields as one record, so that a handler's straight-line
\* code between two suspension points is a composition of updates.
Cur ==
    [ingestion_in_progress  |-> ingestion_in_progress,
     cleaning_in_progress   |-> cleaning_in_progress,
     prediction_in_progress |-> prediction_in_progress,
     last_ingestion_time    |-> last_ingestion_time,
     last_cleaning_time     |-> last_cleaning_time,
     last_prediction_time   |-> last_prediction_time,
     pc |-> pc, entry |-> entry, trace |-> trace]

Commit(s) ==
    /\ ingestion_in_progress'  = s.ingestion_in_progress
    /\ cleaning_in_progress'   = s.cleaning_in_progress
    /\ prediction_in_progress' = s.prediction_in_progress
    /\ last_ingestion_time'    = s.last_ingestion_time
    /\ last_cleaning_time'     = s.last_cleaning_time
    /\ last_prediction_time'   = s.last_prediction_time
    /\ pc' = s.pc /\ entry' = s.entry /\ trace' = s.trace

Log(s, t, stage, what) ==
    [s EXCEPT !.trace[t] = Append(@, <<stage, what>>)]

Park(s, t, label) == [s EXCEPT !.pc[t] = label]

\* the coroutine of task t returns to the event loop's caller
Return(s, t) == Park(s, t, "returned")

(***************************************************************************)
(* run_forecast_jobs (mcp_server.py 200-237)                               *)
(***************************************************************************)
\* a variant whose test of the flag was made before a suspension point, so
\* that the flag is set on a stale answer
run_forecast_jobs_enter_stale_check(s, t) ==
    Park(Log([s EXCEPT !.prediction_in_progress = TRUE],
             t, "prediction", "start"), t, "generate_predictions")

\* lines 208-215: the guard, then the flag is set and the agent is awaited.
\* Nothing suspends between the test and the assignment.
run_forecast_jobs_enter(s, t) ==
    IF s.prediction_in_progress
    THEN Return(Log(s, t, "prediction", "skipped"), t)
    ELSE Park(Log([s EXCEPT !.prediction_in_progress = TRUE],
                  t, "prediction", "start"), t, "generate_predictions")

\* a variant that releases the flag on the normal path only (no finally)
run_forecast_jobs_exit_nofinally(s, t, r, now) ==
    LET s1 == IF r = "ok"
              THEN [s EXCEPT !.last_prediction_time = now,
                             !.prediction_in_progress = FALSE]
              ELSE s
    IN  Return(Log(s1, t, "prediction", r), t)

\* lines 215-237: the agent returned (r = "ok") or raised (r = "error");
\* last_prediction_time is written on the normal path, the finally clause
\* clears the flag on both.
run_forecast_jobs_exit(s, t, r, now) ==
    LET s1 == IF r = "ok" THEN [s EXCEPT !.last_prediction_time = now] ELSE s
        s2 == [s1 EXCEPT !.prediction_in_progress = FALSE]
    IN  Return(Log(s2, t, "prediction", r), t)

(***************************************************************************)
(* schedule_run_cycles, second half (mcp_server.py 112-124)                *)
(***************************************************************************)
\* lines 118-124: reached after a failed ingestion, or after the chained
\* run_after_ingestion returned; the finally clause clears the flag.
schedule_run_cycles_tail(s, t, now) ==
    Return([s EXCEPT !.last_ingestion_time = now,
                     !.ingestion_in_progress = FALSE], t)

(***************************************************************************)
(* orchestrate_agents (mcp_server.py 60-97)                                *)
(***************************************************************************)
\* a variant that gives up the cycle when the cleaning stage did not succeed
orchestrate_agents_after_cleaning_shortcircuit(s, t, r) ==
    IF r = "ok" THEN run_forecast_jobs_enter(s, t) ELSE Return(s, t)

\* lines 84-88: whatever run_after_ingestion returned is stored and
\* run_forecast_jobs is awaited next.
orchestrate_agents_after_cleaning(s, t, r) ==
    run_forecast_jobs_enter(s, t)

(***************************************************************************)
(* run_after_ingestion (mcp_server.py 160-198)                             *)
(***************************************************************************)
\* where control goes when run_after_ingestion returns r to its caller
run_after_ingestion_return(s, t, r, now) ==
    CASE s.entry[t] = "run_after_ingestion" -> Return(s, t)
      [] s.entry[t] = "schedule_run_cycles" -> schedule_run_cycles_tail(s, t, now)
      [] s.entry[t] = "orchestrate_agents"  -> orchestrate_agents_after_cleaning(s, t, r)

\* a variant whose guard sits inside the try block, so that the rejected
\* call runs the finally clause too
run_after_ingestion_enter_guard_in_try(s, t, now) ==
    IF s.cleaning_in_progress
    THEN run_after_ingestion_return(
             Log([s EXCEPT !.cleaning_in_progress = FALSE], t, "cleaning", "skipped"),
             t, "skipped", now)
    ELSE Park(Log([s EXCEPT !.cleaning_in_progress = TRUE],
                  t, "cleaning", "start"), t, "process_raw_data")

\* lines 170-177: the guard returns {"success": False, "reason": "Already in
\* progress"} before the try block is entered; otherwise the flag is set and
\* the agent awaited.
run_after_ingestion_enter(s, t, now) ==
    IF s.cleaning_in_progress
    THEN run_after_ingestion_return(Log(s, t, "cleaning", "skipped"),
                                    t, "skipped", now)
    ELSE Park(Log([s EXCEPT !.cleaning_in_progress = TRUE],
                  t, "cleaning", "start"), t, "process_raw_data")

\* a variant that releases the flag on the normal path only (no finally)
run_after_ingestion_exit_nofinally(s, t, r, now) ==
    LET s1 == IF r = "ok"
              THEN [s EXCEPT !.last_cleaning_time = now,
                             !.cleaning_in_progress = FALSE]
              ELSE s
    IN  run_after_ingestion_return(Log(s1, t, "cleaning", r), t, r, now)

\* lines 177-198: the agent returned or raised; finally clears the flag.
run_after_ingestion_exit(s, t, r, now) ==
    LET s1 == IF r = "ok" THEN [s EXCEPT !.last_cleaning_time = now] ELSE s
        s2 == [s1 EXCEPT !.cleaning_in_progress = FALSE]
    IN  run_after_ingestion_return(Log(s2, t, "cleaning", r), t, r, now)

(***************************************************************************)
(* run_ingestion_cycle (mcp_server.py 126-158) and its callers             *)
(***************************************************************************)
\* lines 136-138: no guard; the agent is awaited at once.
run_ingestion_cycle_enter(s, t) ==
    Park(Log(s, t, "ingestion", "start"), t, "ingest_all_sources")

\* a variant that chains the cleaning stage whatever ingestion reported
schedule_run_cycles_after_ingestion_always(s, t, r, now) ==
    Park(s, t, "sleep")

\* lines 113-118: on success the coroutine sleeps 5 s before it awaits
\* run_after_ingestion; otherwise it goes straight to line 118.
schedule_run_cycles_after_ingestion(s, t, r, now) ==
    IF r = "ok" THEN Park(s, t, "sleep")
    ELSE schedule_run_cycles_tail(s, t, now)

\* line 116, after asyncio.sleep(5) has returned
schedule_run_cycles_after_sleep(s, t, now) ==
    run_after_ingestion_enter(Log(s, t, "sleep", "done"), t, now)

\* lines 79-88: cleaning only if ingestion reported success, then forecast
orchestrate_agents_after_ingestion(s, t, r, now) ==
    IF r = "ok" THEN run_after_ingestion_enter(s, t, now)
    ELSE run_forecast_jobs_enter(s, t)

\* lines 138-158: ingest_all_sources returned (success True) or raised
\* (success False); the result goes back to whoever awaited the cycle.
run_ingestion_cycle_exit(s, t, r, now) ==
    LET s1 == Log(s, t, "ingestion", r)
    IN  CASE s.entry[t] = "run_ingestion_cycle" -> Return(s1, t)
          [] s.entry[t] = "schedule_run_cycles" ->
                 schedule_run_cycles_after_ingestion(s1, t, r, now)
          [] s.entry[t] = "orchestrate_agents"  ->
                 orchestrate_agents_after_ingestion(s1, t, r, now)

\* lines 104-110: the guard, then the flag is set and the cycle awaited
schedule_run_cycles_enter(s, t) ==
    IF s.ingestion_in_progress
    THEN Return(Log(s, t, "ingestion", "skipped"), t)
    ELSE run_ingestion_cycle_enter([s EXCEPT !.ingestion_in_progress = TRUE], t)

(***************************************************************************)
(* run_refresh_cycle (health.py 75-97): fresh agents, no orchestrator      *)
(***************************************************************************)
run_refresh_cycle_enter(s, t) ==
    Park(Log(s, t, "ingestion", "start"), t, "ingest_all_sources")

\* an exception in any step ends the cycle in the except clause (96-97)
run_refresh_cycle_step(s, t, stage, r) ==
    LET s1 == Log(s, t, stage, r)
    IN  IF r # "ok" THEN Return(s1, t)
        ELSE CASE stage = "ingestion" ->
                      Park(Log(s1, t, "cleaning", "start"), t, "process_raw_data")
               [] stage = "cleaning" ->
                      Park(Log(s1, t, "prediction", "start"), t, "generate_predictions")
               [] stage = "prediction" -> Return(s1, t)

(***************************************************************************)
(* The dictionaries the trigger operations return                          *)
(***************************************************************************)
\* datetime.isoformat(): the text of a datetime
isoformat(t) == <<"iso", t>>

\* run_ingestion_cycle (141-158): r is "ok" when ingest_all_sources returned
\* and "error" when it raised
run_ingestion_cycle_result(r, now) ==
    IF r = "ok"
    THEN [success |-> TRUE, agent |-> "Agent 1: Ingestion",
          records_ingested |-> "total_records", breakdown |-> "results",
          timestamp |-> isoformat(now)]
    ELSE [success |-> FALSE, agent |-> "Agent 1: Ingestion",
          error |-> "str(e)", timestamp |-> isoformat(now)]

\* run_after_ingestion (170-196): "skipped" is the guard's early return
run_after_ingestion_result(r, now) ==
    CASE r = "skipped" -> [success |-> FALSE, reason |-> "Already in progress"]
      [] r = "ok"      -> [success |-> TRUE, agent |-> "Agent 2: Cleaning & Correlation",
                           results |-> "results", timestamp |-> isoformat(now)]
      [] r = "error"   -> [success |-> FALSE, agent |-> "Agent 2: Cleaning & Correlation",
                           error |-> "str(e)", timestamp |-> isoformat(now)]

\* run_forecast_jobs (208-235)
run_forecast_jobs_result(r, now) ==
    CASE r = "skipped" -> [success |-> FALSE, reason |-> "Already in progress"]
      [] r = "ok"      -> [success |-> TRUE, agent |-> "Agent 3: Prediction Engine",
                           predictions_created |-> "predictions_created",
                           forecast_windows |-> <<15, 30>>,
                           timestamp |-> isoformat(now)]
      [] r = "error"   -> [success |-> FALSE, agent |-> "Agent 3: Prediction Engine",
                           error |-> "str(e)", timestamp |-> isoformat(now)]

\* orchestrate_agents (68-92): cycle_status, stamped when the cycle starts;
\* a stage that was not attempted keeps None
orchestrate_agents_result(ingestion, cleaning, prediction, started) ==
    [timestamp |-> isoformat(started), ingestion |-> ingestion,
     cleaning |-> cleaning, prediction |-> prediction, status |-> "completed"]

(***************************************************************************)
(* get_status (mcp_server.py 312-343)                                      *)
(***************************************************************************)
\* the "agents" part of the dictionary get_status returns; it is a plain
\* function that reads six fields and the clock and assigns nothing
get_status ==
    [agent1_ingestion |->
        [last_run |-> IF last_ingestion_time # None
                      THEN isoformat(last_ingestion_time) ELSE None,
         in_progress |-> ingestion_in_progress],
     agent2_cleaning |->
        [last_run |-> IF last_cleaning_time # None
                      THEN isoformat(last_cleaning_time) ELSE None,
         in_progress |-> cleaning_in_progress],
     agent3_prediction |->
        [last_run |-> IF last_prediction_time # None
                      THEN isoformat(last_prediction_time) ELSE None,
         in_progress |-> prediction_in_progress],
     timestamp |-> isoformat(utcnow)]

\* the entry of get_status()["agents"] that describes stage s
StatusOf(s) ==
    CASE s = "ingestion"  -> get_status.agent1_ingestion
      [] s = "cleaning"   -> get_status.agent2_cleaning
      [] s = "prediction" -> get_status.agent3_prediction

(***************************************************************************)
(* Actions of the orchestrator model                                       *)
(***************************************************************************)
Outcomes == {"ok", "error"}

OrchInit ==
    /\ ingestion_in_progress = FALSE
    /\ cleaning_in_progress = FALSE
    /\ prediction_in_progress = FALSE
    /\ last_ingestion_time = None
    /\ last_cleaning_time = None
    /\ last_prediction_time = None
    /\ utcnow = 0
    /\ pc = [t \in Tasks |-> "idle"]
    /\ entry = [t \in Tasks |-> "none"]
    /\ trace = [t \in Tasks |-> <<>>]

\* the first synchronous stretch of coroutine e, run by task t
Enter(s, t, e) ==
    CASE e = "schedule_run_cycles" -> schedule_run_cycles_enter(s, t)
      [] e = "run_ingestion_cycle" -> run_ingestion_cycle_enter(s, t)
      [] e = "run_after_ingestion" -> run_after_ingestion_enter(s, t, utcnow)
      [] e = "run_forecast_jobs"   -> run_forecast_jobs_enter(s, t)
      [] e = "orchestrate_agents"  -> run_ingestion_cycle_enter(s, t)
      [] e = "run_refresh_cycle"   -> run_refresh_cycle_enter(s, t)

\* A scheduler tick (jobs have max_instances=1, so a job is submitted only
\* while no instance of it is running), an operator request on one of the
\* trigger routes, or the start of the refresh background task.
Invoke(t) ==
    /\ pc[t] = "idle"
    /\ \E e \in EntryPoints(t) :
          Commit(Enter([Cur EXCEPT !.entry[t] = e, !.trace[t] = <<>>], t, e))
    /\ UNCHANGED utcnow

\* ingest_all_sources finishes
FinishIngestion(t) ==
    /\ pc[t] = "ingest_all_sources"
    /\ \E r \in Outcomes :
          Commit(IF entry[t] = "run_refresh_cycle"
                 THEN run_refresh_cycle_step(Cur, t, "ingestion", r)
                 ELSE run_ingestion_cycle_exit(Cur, t, r, utcnow))
    /\ UNCHANGED utcnow

\* asyncio.sleep(5) finishes
FinishSleep(t) ==
    /\ pc[t] = "sleep"
    /\ Commit(schedule_run_cycles_after_sleep(Cur, t, utcnow))
    /\ UNCHANGED utcnow

\* process_raw_data finishes
FinishCleaning(t) ==
    /\ pc[t] = "process_raw_data"
    /\ \E r \in Outcomes :
          Commit(IF entry[t] = "run_refresh_cycle"
                 THEN run_refresh_cycle_step(Cur, t, "cleaning", r)
                 ELSE run_after_ingestion_exit(Cur, t, r, utcnow))
    /\ UNCHANGED utcnow

\* generate_predictions finishes
FinishPrediction(t) ==
    /\ pc[t] = "generate_predictions"
    /\ \E r \in Outcomes :
          Commit(IF entry[t] = "run_refresh_cycle"
                 THEN run_refresh_cycle_step(Cur, t, "prediction", r)
                 ELSE run_forecast_jobs_exit(Cur, t, r, utcnow))
    /\ UNCHANGED utcnow

\* the finished coroutine's result is delivered (HTTP response sent, job
\* instance released by the executor)
Release(t) ==
    /\ pc[t] = "returned"
    /\ pc' = [pc EXCEPT ![t] = "idle"]
    /\ entry' = [entry EXCEPT ![t] = "none"]
    /\ trace' = [trace EXCEPT ![t] = <<>>]
    /\ UNCHANGED <<ingestion_in_progress, cleaning_in_progress,
                   prediction_in_progress, last_ingestion_time,
                   last_cleaning_time, last_prediction_time, utcnow>>

\* time passes
AdvanceClock ==
    /\ utcnow < MaxClock
    /\ utcnow' = utcnow + 1
    /\ UNCHANGED <<ingestion_in_progress, cleaning_in_progress,
                   prediction_in_progress, last_ingestion_time,
                   last_cleaning_time, last_prediction_time, pc, entry, trace>>

TaskStep(t) ==
    \/ Invoke(t)
    \/ FinishIngestion(t)
    \/ FinishSleep(t)
    \/ FinishCleaning(t)
    \/ FinishPrediction(t)
    \/ Release(t)

OrchNext ==
    \/ \E t \in Tasks : TaskStep(t)
    \/ AdvanceClock

\* the keys of ingest_all_sources' results, in the order it ingests them
Sources == <<"traffic_511", "traffic_dot", "transit_mta", "air_quality">>

SourceSet == {Sources[k] : k \in 1..Len(Sources)}

\* the empty database
DbInit ==
    /\ raw_traffic_511 = <<>>
    /\ raw_traffic_dot = <<>>
    /\ raw_transit_mta = <<>>
    /\ raw_air_quality = <<>>
    /\ segments_state = <<>>
    /\ zones_state = <<>>
    /\ lastOp = "init"
    /\ fusion_runs = 0
    /\ fusion_result = [segments_created |-> None, zones_created |-> None]
    /\ ingestion_call = [calls |-> 0, failing |-> {},
                         fetched |-> [src \in SourceSet |-> <<>>],
                         results |-> [src \in SourceSet |-> 0]]
    /\ predicted_segments = <<>>
    /\ model_trained = TRUE

Init == OrchInit /\ DbInit

Next == OrchNext /\ UNCHANGED dbVars

Spec == Init /\ [][Next]_vars

(***************************************************************************)
(* Part II : the fusion stage (app/agents/agent2_cleaning.py,              *)
(*           app/services/imputation.py, app/services/correlation.py)      *)
(*                                                                         *)
(* Floats are exact rationals <<numerator, denominator>> in lowest terms;  *)
(* coordinates are integers in units of 0.0001 degree; datetimes are       *)
(* integer minutes.                                                        *)
(***************************************************************************)
RECURSIVE GCD(_, _)
GCD(a, b) == IF b = 0 THEN a ELSE GCD(b, a % b)

Abs(x) == IF x < 0 THEN -x ELSE x

Norm(n, d) == LET g == GCD(Abs(n), d) IN <<n \div g, d \div g>>

R(x) == <<x, 1>>
RAdd(a, b) == Norm(a[1] * b[2] + b[1] * a[2], a[2] * b[2])
RSub(a, b) == Norm(a[1] * b[2] - b[1] * a[2], a[2] * b[2])
RMul(a, b) == Norm(a[1] * b[1], a[2] * b[2])
RDivInt(a, k) == Norm(a[1], a[2] * k)
RLt(a, b) == a[1] * b[2] < b[1] * a[2]
RLe(a, b) == a[1] * b[2] <= b[1] * a[2]
RMax(a, b) == IF RLt(a, b) THEN b ELSE a
RMin(a, b) == IF RLt(b, a) THEN b ELSE a

\* Python's None in a float-valued field
NoneR == <<0, 0>>

\* float('nan') in a coordinate field
NaN == -2

RECURSIVE RSum(_)
RSum(q) == IF q = <<>> THEN R(0) ELSE RAdd(Head(q), RSum(Tail(q)))

\* sum(xs) / len(xs)
Mean(q) == RDivInt(RSum(q), Len(q))

RECURSIVE Concat(_)
Concat(qq) == IF qq = <<>> THEN <<>> ELSE Head(qq) \o Concat(Tail(qq))

\* [f(x) for x in q]
Map(q, f(_)) == [i \in 1..Len(q) |-> f(q[i])]

\* cursor.limit(n) / to_list(length=n)
Limit(q, n) == SubSeq(q, 1, IF Len(q) < n THEN Len(q) ELSE n)

\* agent2_cleaning.py 16-23, in units of 0.0001 degree
NYC_MIN_LAT == 405000
NYC_MAX_LAT == 409000
NYC_MIN_LON == -743000
NYC_MAX_LON == -737000
NYC_DEFAULT_LAT == 407580
NYC_DEFAULT_LON == -739855

\* self.bucket_minutes
bucket_minutes == 5

\* _get_time_bucket: minutes floored to the 5-minute boundary
get_time_bucket(timestamp) == (timestamp \div bucket_minutes) * bucket_minutes

\* _is_valid_coordinate (64-75)
is_valid_coordinate(lat, lon) ==
    IF lat = None \/ lon = None THEN FALSE
    ELSE IF lat = NaN \/ lon = NaN THEN FALSE
    ELSE IF lat = 0 /\ lon = 0 THEN FALSE
    ELSE IF ~(/\ NYC_MIN_LAT <= lat /\ lat <= NYC_MAX_LAT
              /\ NYC_MIN_LON <= lon /\ lon <= NYC_MAX_LON) THEN FALSE
    ELSE TRUE

\* _get_borough_from_coordinates (139-158)
get_borough_from_coordinates(lat, lon) ==
    IF 407000 <= lat /\ lat <= 408000 /\ -740500 <= lon /\ lon <= -739500
        THEN "Manhattan"
    ELSE IF 406000 <= lat /\ lat <= 407500 /\ -740500 <= lon /\ lon <= -739000
        THEN "Brooklyn"
    ELSE IF 407000 <= lat /\ lat <= 408000 /\ -739500 <= lon /\ lon <= -737000
        THEN "Queens"
    ELSE IF 408000 <= lat /\ lat <= 409000 /\ -739500 <= lon /\ lon <= -738500
        THEN "Bronx"
    ELSE IF 405000 <= lat /\ lat <= 406500 /\ -743000 <= lon /\ lon <= -741000
        THEN "Staten Island"
    ELSE "Manhattan"

\* a variant that lets high speeds through
clean_speed_value_uncapped(speed) ==
    IF speed = NoneR THEN NoneR
    ELSE IF RLt(speed, R(0)) THEN NoneR
    ELSE speed

\* ImputationService.clean_speed_value (18-42)
clean_speed_value(speed) ==
    IF speed = NoneR THEN NoneR
    ELSE IF RLt(speed, R(0)) THEN NoneR
    ELSE IF RLt(R(100), speed) THEN R(100)
    ELSE speed

\* a variant without the early returns and the clamp
calculate_congestion_index_unclamped(speed_mph) ==
    RSub(R(1), RDivInt(speed_mph, 50))

\* ImputationService.calculate_congestion_index (117-137), max_speed = 50.0
calculate_congestion_index(speed_mph) ==
    IF RLe(R(50), speed_mph) THEN R(0)
    ELSE IF RLe(speed_mph, R(0)) THEN R(1)
    ELSE RMax(R(0), RMin(R(1), RSub(R(1), RDivInt(speed_mph, 50))))

\* a variant that gives an imputed speed the credit of a reading
calculate_confidence_score_imputed_as_real(has_traffic_data, has_transit_data, has_air_quality, speed_quality) ==
    LET s0 == IF has_traffic_data \/ speed_quality = "imputed" THEN <<3, 5>> ELSE R(0)
        s1 == IF has_transit_data THEN RAdd(s0, <<1, 5>>) ELSE s0
        s2 == IF has_air_quality THEN RAdd(s1, <<1, 5>>) ELSE s1
        s3 == IF speed_quality = "missing" THEN RMul(s2, <<1, 2>>) ELSE s2
    IN  RMax(R(0), RMin(R(1), s3))

\* ImputationService.calculate_confidence_score (139-180)
calculate_confidence_score(has_traffic_data, has_transit_data, has_air_quality, speed_quality) ==
    LET s0 == IF has_traffic_data THEN <<3, 5>>
              ELSE IF speed_quality = "imputed" THEN <<3, 10>>
              ELSE R(0)
        s1 == IF has_transit_data THEN RAdd(s0, <<1, 5>>) ELSE s0
        s2 == IF has_air_quality THEN RAdd(s1, <<1, 5>>) ELSE s1
        s3 == IF speed_quality = "imputed" THEN RMul(s2, <<4, 5>>)
              ELSE IF speed_quality = "missing" THEN RMul(s2, <<1, 2>>)
              ELSE s2
    IN  RMax(R(0), RMin(R(1), s3))

(***************************************************************************)
(* Storage queries                                                         *)
(***************************************************************************)
\* Python truthiness of a number-or-None field (doc.get("speed_mph"))
Truthy(x) == x # None /\ x # 0
TruthyR(x) == x # NoneR /\ x[1] # 0

\* cursor.sort(key, -1): largest key first, equal keys in natural order
SortDescBy(q, key(_)) ==
    LET n == Len(q)
        rank(i) == 1 + Cardinality({j \in 1..n :
                          \/ key(q[j]) > key(q[i])
                          \/ key(q[j]) = key(q[i]) /\ j < i})
    IN  [r \in 1..n |-> q[CHOOSE i \in 1..n : rank(i) = r]]

TsBucket(d) == d.timestamp_bucket
Ts(d) == d.timestamp

\* {"latitude": {"$ne": None, "$exists": True}, "longitude": {...}}
HasLatLon(d) == d.latitude # None /\ d.longitude # None

\* find_one({"segment_id": id, latitude/longitude not None}, sort=[(key, -1)])
\* as a sequence of zero or one document
FindOneWithCoords(coll, segment_id, key(_)) ==
    Limit(SortDescBy(SelectSeq(coll, LAMBDA d : d.segment_id = segment_id /\ HasLatLon(d)),
                     key), 1)

\* a variant that trusts the coordinates of whatever document it finds
impute_coordinates_unchecked(segment_id, fail) ==
    IF fail THEN <<NYC_DEFAULT_LAT, NYC_DEFAULT_LON>>
    ELSE LET historical == FindOneWithCoords(segments_state, segment_id, TsBucket)
             raw_511 == FindOneWithCoords(raw_traffic_511, segment_id, Ts)
             raw_dot == FindOneWithCoords(raw_traffic_dot, segment_id, Ts)
         IN  IF historical # <<>>
             THEN <<historical[1].latitude, historical[1].longitude>>
             ELSE IF raw_511 # <<>>
             THEN <<raw_511[1].latitude, raw_511[1].longitude>>
             ELSE IF raw_dot # <<>>
             THEN <<raw_dot[1].latitude, raw_dot[1].longitude>>
             ELSE <<NYC_DEFAULT_LAT, NYC_DEFAULT_LON>>

\* _impute_coordinates (77-137); fail: a lookup raises and the except clause
\* returns the default
impute_coordinates(segment_id, fail) ==
    IF fail THEN <<NYC_DEFAULT_LAT, NYC_DEFAULT_LON>>
    ELSE LET historical == FindOneWithCoords(segments_state, segment_id, TsBucket)
             raw_511 == FindOneWithCoords(raw_traffic_511, segment_id, Ts)
             raw_dot == FindOneWithCoords(raw_traffic_dot, segment_id, Ts)
         IN  IF /\ historical # <<>>
                /\ is_valid_coordinate(historical[1].latitude, historical[1].longitude)
             THEN <<historical[1].latitude, historical[1].longitude>>
             ELSE IF /\ raw_511 # <<>>
                     /\ is_valid_coordinate(raw_511[1].latitude, raw_511[1].longitude)
             THEN <<raw_511[1].latitude, raw_511[1].longitude>>
             ELSE IF /\ raw_dot # <<>>
                     /\ is_valid_coordinate(raw_dot[1].latitude, raw_dot[1].longitude)
             THEN <<raw_dot[1].latitude, raw_dot[1].longitude>>
             ELSE <<NYC_DEFAULT_LAT, NYC_DEFAULT_LON>>

\* _validate_and_impute_coordinates (160-166)
validate_and_impute_coordinates(segment_id, lat, lon, fail) ==
    IF is_valid_coordinate(lat, lon) THEN <<lat, lon>>
    ELSE impute_coordinates(segment_id, fail)

\* [doc.get("speed_mph", 0) for doc in docs if doc.get("speed_mph")]
TruthySpeeds(docs) ==
    Map(SelectSeq(docs, LAMBDA d : TruthyR(d.speed_mph)), LAMBDA d : d.speed_mph)

\* ImputationService.impute_missing_speed (44-115) with current_speed = None
impute_missing_speed(segment_id, timestamp, fail) ==
    IF fail THEN R(20)
    ELSE LET recent_cutoff == timestamp - 30
             recent_docs ==
                 Limit(SortDescBy(SelectSeq(segments_state, LAMBDA d :
                           d.segment_id = segment_id /\ d.timestamp_bucket >= recent_cutoff),
                       TsBucket), 10)
             segment_doc ==
                 Limit(SortDescBy(SelectSeq(segments_state, LAMBDA d :
                           d.segment_id = segment_id), TsBucket), 1)
             lat == segment_doc[1].latitude
             lon == segment_doc[1].longitude
             nearby_docs ==
                 Limit(SortDescBy(SelectSeq(segments_state, LAMBDA d :
                           /\ lat - 100 <= d.latitude /\ d.latitude <= lat + 100
                           /\ lon - 100 <= d.longitude /\ d.longitude <= lon + 100
                           /\ d.timestamp_bucket >= recent_cutoff),
                       TsBucket), 5)
         IN  IF TruthySpeeds(recent_docs) # <<>> THEN Mean(TruthySpeeds(recent_docs))
             ELSE IF segment_doc # <<>> /\ TruthySpeeds(nearby_docs) # <<>>
             THEN Mean(TruthySpeeds(nearby_docs))
             ELSE R(20)

\* CorrelationService.check_transit_delays_nearby (74-124), 15-minute window
check_transit_delays_nearby(latitude, longitude, timestamp, fail) ==
    IF fail THEN FALSE
    ELSE Len(Limit(SelectSeq(raw_transit_mta, LAMBDA d :
                 /\ latitude - 200 <= d.latitude /\ d.latitude <= latitude + 200
                 /\ longitude - 200 <= d.longitude /\ d.longitude <= longitude + 200
                 /\ timestamp - 15 <= d.timestamp /\ d.timestamp <= timestamp + 15
                 /\ d.delay_seconds > 300), 3)) > 0

\* CorrelationService.find_nearby_air_quality (20-72), 15-minute window
find_nearby_air_quality(latitude, longitude, timestamp, fail) ==
    IF fail THEN NoneR
    ELSE LET readings ==
                 Limit(SortDescBy(SelectSeq(raw_air_quality, LAMBDA d :
                           /\ latitude - 100 <= d.latitude /\ d.latitude <= latitude + 100
                           /\ longitude - 100 <= d.longitude /\ d.longitude <= longitude + 100
                           /\ timestamp - 15 <= d.timestamp /\ d.timestamp <= timestamp + 15
                           /\ d.pm25 # None), Ts), 5)
             pm25_values == Map(SelectSeq(readings, LAMBDA d : Truthy(d.pm25)),
                                LAMBDA d : R(d.pm25))
         IN  IF pm25_values # <<>> THEN Mean(pm25_values) ELSE NoneR

(***************************************************************************)
(* CleaningCorrelationAgent._process_traffic_data (168-349)                *)
(***************************************************************************)
\* find({"timestamp": {"$gte": cutoff_time}}).to_list(length=1000)
FindSince(coll, cutoff_time) ==
    Limit(SelectSeq(coll, LAMBDA d : d.timestamp >= cutoff_time), 1000)

\* lines 184-213 (511NY) and 216-241 (DOT): one raw document is merged into
\* the group of its (segment_id, bucket); the group keeps the coordinates of
\* the document that created it
AddToGroups(groups, doc, source) ==
    IF doc.segment_id = "" THEN groups
    ELSE LET bucket == get_time_bucket(doc.timestamp)
             hit == {k \in 1..Len(groups) :
                        /\ groups[k].segment_id = doc.segment_id
                        /\ groups[k].timestamp_bucket = bucket}
             g0 == IF hit = {}
                   THEN Append(groups,
                               [segment_id |-> doc.segment_id,
                                timestamp_bucket |-> bucket,
                                speeds |-> <<>>,
                                incidents |-> <<>>,
                                roadwork |-> FALSE,
                                lat |-> doc.latitude,
                                lon |-> doc.longitude,
                                sources |-> {}])
                   ELSE groups
             k == CHOOSE k \in 1..Len(g0) :
                      /\ g0[k].segment_id = doc.segment_id
                      /\ g0[k].timestamp_bucket = bucket
             seg == g0[k]
             seg1 == IF Truthy(doc.speed_mph)
                     THEN [seg EXCEPT !.speeds = Append(@, doc.speed_mph)] ELSE seg
             seg2 == IF source = "511ny" /\ doc.incident_type # "None"
                     THEN [seg1 EXCEPT !.incidents = Append(@, doc.incident_type)]
                     ELSE seg1
             seg3 == IF source = "511ny" /\ doc.roadwork_flag
                     THEN [seg2 EXCEPT !.roadwork = TRUE] ELSE seg2
         IN  [g0 EXCEPT ![k] = [seg3 EXCEPT !.sources = @ \cup {source}]]

RECURSIVE GroupDocs(_, _, _)
GroupDocs(groups, docs, source) ==
    IF docs = <<>> THEN groups
    ELSE GroupDocs(AddToGroups(groups, Head(docs), source), Tail(docs), source)

\* lines 246-327: the segments_state document of one group; fail: the
\* storage lookups made for this document raise
SegmentDoc(seg_data, fail) ==
    LET valid == validate_and_impute_coordinates(seg_data.segment_id,
                                                 seg_data.lat, seg_data.lon, fail)
        speeds == seg_data.speeds
        avg_speed == IF speeds # <<>> THEN Mean(Map(speeds, R))
                     ELSE impute_missing_speed(seg_data.segment_id,
                                               seg_data.timestamp_bucket, fail)
        cleaned == clean_speed_value(avg_speed)
        cleaned_speed == IF cleaned = NoneR
                         THEN impute_missing_speed(seg_data.segment_id,
                                                   seg_data.timestamp_bucket, fail)
                         ELSE cleaned
        transit_delay_flag == check_transit_delays_nearby(
                                  valid[1], valid[2], seg_data.timestamp_bucket, fail)
        pm25_nearby == find_nearby_air_quality(
                           valid[1], valid[2], seg_data.timestamp_bucket, fail)
    IN  [segment_id |-> seg_data.segment_id,
         timestamp_bucket |-> seg_data.timestamp_bucket,
         speed_mph |-> cleaned_speed,
         congestion_index |-> calculate_congestion_index(cleaned_speed),
         incident_flag |-> (Len(seg_data.incidents) > 0 \/ seg_data.roadwork),
         transit_delay_flag |-> transit_delay_flag,
         pm25_nearby |-> pm25_nearby,
         data_confidence_score |->
             calculate_confidence_score(Len(speeds) > 0, transit_delay_flag,
                                        pm25_nearby # NoneR,
                                        IF speeds # <<>> THEN "good" ELSE "imputed"),
         latitude |-> valid[1],
         longitude |-> valid[2],
         sources |-> seg_data.sources,
         borough |-> get_borough_from_coordinates(valid[1], valid[2])]

\* update_one(filter, {"$set": doc}, upsert=True): the first document the
\* filter matches is overwritten, or the document is inserted
update_one_upsert(coll, match(_), doc) ==
    IF \E k \in 1..Len(coll) : match(coll[k])
    THEN LET k == CHOOSE k \in 1..Len(coll) :
                      match(coll[k]) /\ \A j \in 1..(k - 1) : ~match(coll[j])
         IN  [coll EXCEPT ![k] = doc]
    ELSE Append(coll, doc)

\* a variant that inserts a new document on every write
insert_segment(coll, seg_doc) == Append(coll, seg_doc)

\* lines 333-340: the upsert keyed by (segment_id, timestamp_bucket)
upsert_segment(coll, seg_doc) ==
    update_one_upsert(coll,
                      LAMBDA d : /\ d.segment_id = seg_doc.segment_id
                                 /\ d.timestamp_bucket = seg_doc.timestamp_bucket,
                      seg_doc)

RECURSIVE UpsertSegments(_, _, _, _)
\* lines 330-342: the upsert loop; the write numbered failAt raises and ends
\* the loop.  The result is the collection, the count and whether it raised.
UpsertSegments(acc, docs, n, failAt) ==
    IF docs = <<>> THEN acc
    ELSE IF n = failAt THEN [acc EXCEPT !.raised = TRUE]
    ELSE LET seg_doc == Head(docs)
             coll == upsert_segment(acc.coll, seg_doc)
         IN  UpsertSegments([coll |-> coll,
                             count |-> IF coll # acc.coll THEN acc.count + 1
                                       ELSE acc.count,
                             raised |-> FALSE],
                            Tail(docs), n + 1, failAt)

\* the documents lines 172-327 build from the raw collections
SegmentsToInsert(cutoff_time, fail) ==
    LET traffic_511 == FindSince(raw_traffic_511, cutoff_time)
        traffic_dot == FindSince(raw_traffic_dot, cutoff_time)
        segments_dict == GroupDocs(GroupDocs(<<>>, traffic_511, "511ny"),
                                   traffic_dot, "nyc_dot_opendata")
    IN  Map(segments_dict, LAMBDA g : SegmentDoc(g, fail))

\* _process_traffic_data as a whole: the new segments_state and the count it
\* returns (0 from the except clause when anything raised)
process_traffic_data(cutoff_time, fault) ==
    IF fault.kind = "find" THEN [coll |-> segments_state, count |-> 0]
    ELSE LET done == UpsertSegments(
                         [coll |-> segments_state, count |-> 0, raised |-> FALSE],
                         SegmentsToInsert(cutoff_time, fault.kind = "lookups"),
                         1, IF fault.kind = "write" THEN fault.at ELSE 0)
         IN  [coll |-> done.coll,
              count |-> IF done.raised THEN 0 ELSE done.count]

(***************************************************************************)
(* CleaningCorrelationAgent._process_zones (351-500)                       *)
(***************************************************************************)
\* CorrelationService.calculate_traffic_pollution_risk (126-160)
calculate_traffic_pollution_risk(congestion_index, pm25) ==
    LET base_risk == IF RLt(congestion_index, <<3, 10>>) THEN "Low"
                     ELSE IF RLt(congestion_index, <<3, 5>>) THEN "Medium"
                     ELSE "High"
    IN  IF pm25 # NoneR /\ RLt(R(35), pm25) THEN "High"
        ELSE IF pm25 # NoneR /\ RLt(R(12), pm25) /\ base_risk = "Low" THEN "Medium"
        ELSE base_risk

\* f"{borough.lower().replace(' ', '_')}_zone"
BoroughZone(borough) ==
    CASE borough = "Manhattan"     -> "manhattan_zone"
      [] borough = "Brooklyn"      -> "brooklyn_zone"
      [] borough = "Queens"        -> "queens_zone"
      [] borough = "Bronx"         -> "bronx_zone"
      [] borough = "Staten Island" -> "staten_island_zone"

\* lines 388-396: the ordered bounding-box rules, first match wins
ZoneId(lat, lon) ==
    IF 407000 <= lat /\ lat <= 408000 /\ -740500 <= lon /\ lon <= -739500
        THEN "manhattan_cbd"
    ELSE IF 406500 <= lat /\ lat <= 407500 /\ -740500 <= lon /\ lon <= -739000
        THEN "brooklyn_downtown"
    ELSE IF 407000 <= lat /\ lat <= 408000 /\ -739500 <= lon /\ lon <= -738000
        THEN "queens_midtown"
    ELSE BoroughZone(get_borough_from_coordinates(lat, lon))

\* lines 443-453: the substring tests on zone_id, on the ids ZoneId yields
ZoneBorough(zone_id) ==
    CASE zone_id \in {"manhattan_cbd", "manhattan_zone"}        -> "Manhattan"
      [] zone_id \in {"brooklyn_downtown", "brooklyn_zone"}     -> "Brooklyn"
      [] zone_id \in {"queens_midtown", "queens_zone"}          -> "Queens"
      [] zone_id = "bronx_zone"                                 -> "Bronx"
      [] zone_id = "staten_island_zone"                         -> "Staten Island"

NewZone(zone_id) ==
    [zone_id |-> zone_id, speeds |-> <<>>, congestion_indices |-> <<>>,
     pm25_values |-> <<>>, incident_count |-> 0, transit_delay_count |-> 0,
     segment_count |-> 0, latitudes |-> <<>>, longitudes |-> <<>>]

\* a variant that groups a segment whatever its coordinates
AddToZones_unchecked(zones, seg) ==
    LET zone_id == ZoneId(seg.latitude, seg.longitude)
        z0 == IF \E k \in 1..Len(zones) : zones[k].zone_id = zone_id
              THEN zones ELSE Append(zones, NewZone(zone_id))
        k == CHOOSE k \in 1..Len(z0) : z0[k].zone_id = zone_id
        zone == z0[k]
    IN  [z0 EXCEPT ![k] =
           [zone EXCEPT
              !.speeds = Append(@, seg.speed_mph),
              !.congestion_indices = Append(@, seg.congestion_index),
              !.pm25_values = IF TruthyR(seg.pm25_nearby)
                              THEN Append(@, seg.pm25_nearby) ELSE @,
              !.incident_count = IF seg.incident_flag THEN @ + 1 ELSE @,
              !.transit_delay_count = IF seg.transit_delay_flag THEN @ + 1 ELSE @,
              !.segment_count = @ + 1,
              !.latitudes = Append(@, seg.latitude),
              !.longitudes = Append(@, seg.longitude)]]

\* lines 375-409: one segment is added to its zone's accumulator
AddToZones(zones, seg) ==
    IF ~is_valid_coordinate(seg.latitude, seg.longitude) THEN zones
    ELSE LET zone_id == ZoneId(seg.latitude, seg.longitude)
             z0 == IF \E k \in 1..Len(zones) : zones[k].zone_id = zone_id
                   THEN zones ELSE Append(zones, NewZone(zone_id))
             k == CHOOSE k \in 1..Len(z0) : z0[k].zone_id = zone_id
             zone == z0[k]
         IN  [z0 EXCEPT ![k] =
                [zone EXCEPT
                   !.speeds = Append(@, seg.speed_mph),
                   !.congestion_indices = Append(@, seg.congestion_index),
                   !.pm25_values = IF TruthyR(seg.pm25_nearby)
                                   THEN Append(@, seg.pm25_nearby) ELSE @,
                   !.incident_count = IF seg.incident_flag THEN @ + 1 ELSE @,
                   !.transit_delay_count = IF seg.transit_delay_flag THEN @ + 1 ELSE @,
                   !.segment_count = @ + 1,
                   !.latitudes = Append(@, seg.latitude),
                   !.longitudes = Append(@, seg.longitude)]]

RECURSIVE GroupZones(_, _)
GroupZones(zones, segments) ==
    IF segments = <<>> THEN zones
    ELSE GroupZones(AddToZones(zones, Head(segments)), Tail(segments))

SeqMin(q) == CHOOSE x \in {q[i] : i \in 1..Len(q)} : \A i \in 1..Len(q) : x <= q[i]
SeqMax(q) == CHOOSE x \in {q[i] : i \in 1..Len(q)} : \A i \in 1..Len(q) : x >= q[i]

\* lines 415-479: the zones_state document of one accumulator
ZoneDoc(zone_data, timestamp_bucket) ==
    LET avg_congestion == Mean(zone_data.congestion_indices)
        avg_pm25 == IF zone_data.pm25_values # <<>>
                    THEN Mean(zone_data.pm25_values) ELSE NoneR
    IN  [zone_id |-> zone_data.zone_id,
         timestamp_bucket |-> timestamp_bucket,
         avg_speed_mph |-> Mean(zone_data.speeds),
         avg_congestion_index |-> avg_congestion,
         avg_pm25 |-> avg_pm25,
         traffic_pollution_risk |->
             calculate_traffic_pollution_risk(avg_congestion, avg_pm25),
         segment_count |-> zone_data.segment_count,
         incident_count |-> zone_data.incident_count,
         transit_delay_count |-> zone_data.transit_delay_count,
         borough |-> ZoneBorough(zone_data.zone_id),
         bounding_box |-> [min_lat |-> SeqMin(zone_data.latitudes),
                           max_lat |-> SeqMax(zone_data.latitudes),
                           min_lon |-> SeqMin(zone_data.longitudes),
                           max_lon |-> SeqMax(zone_data.longitudes)]]

\* a variant that inserts a new document on every write
insert_zone(coll, zone_doc) == Append(coll, zone_doc)

\* lines 484-491: the upsert keyed by (zone_id, timestamp_bucket)
upsert_zone(coll, zone_doc) ==
    update_one_upsert(coll,
                      LAMBDA d : /\ d.zone_id = zone_doc.zone_id
                                 /\ d.timestamp_bucket = zone_doc.timestamp_bucket,
                      zone_doc)

RECURSIVE UpsertZones(_, _)
UpsertZones(acc, docs) ==
    IF docs = <<>> THEN acc
    ELSE LET coll == upsert_zone(acc.coll, Head(docs))
         IN  UpsertZones([coll |-> coll,
                          count |-> IF coll # acc.coll THEN acc.count + 1
                                    ELSE acc.count],
                         Tail(docs))

\* _process_zones as a whole, reading the segments_state it is given
process_zones(segments_coll, cutoff_time, now, fault) ==
    IF fault.kind = "find" THEN [coll |-> zones_state, count |-> 0]
    ELSE LET segments == Limit(SelectSeq(segments_coll, LAMBDA d :
                                   d.timestamp_bucket >= cutoff_time), 1000)
             zones_dict == GroupZones(<<>>, segments)
             kept == SelectSeq(zones_dict, LAMBDA z :
                         z.segment_count # 0 /\ z.latitudes # <<>> /\ z.longitudes # <<>>)
             zones_to_insert == Map(kept, LAMBDA z : ZoneDoc(z, get_time_bucket(now)))
         IN  UpsertZones([coll |-> zones_state, count |-> 0], zones_to_insert)

(***************************************************************************)
(* Actions of the fusion model                                             *)
(***************************************************************************)
Segments == {"S1", "S2"}

\* coordinates the upstream feeds report
PtA == <<407500, -739900>>
PtNear == <<407550, -739950>>
PtB == <<406600, -739500>>

Item511(segment_id, speed_mph, pt, incident_type) ==
    [segment_id |-> segment_id, speed_mph |-> speed_mph,
     latitude |-> pt[1], longitude |-> pt[2],
     incident_type |-> incident_type, roadwork_flag |-> FALSE]

ItemDot(segment_id, speed_mph, pt) ==
    [segment_id |-> segment_id, speed_mph |-> speed_mph,
     latitude |-> pt[1], longitude |-> pt[2]]

\* what Traffic511Client.fetch_traffic_data may hand to the ingestion agent
Items511 ==
    {Item511("S1", None, PtA, "None"),
     Item511("S1", 10, PtA, "None"),
     Item511("S1", 120, PtA, "None"),
     Item511("S1", -20, <<0, 0>>, "None"),
     Item511("S1", 10, <<NaN, NaN>>, "None"),
     Item511("S2", 10, PtNear, "None")}

\* what TrafficDOTClient.fetch_traffic_speeds may hand to the ingestion agent
ItemsDot ==
    {ItemDot("S2", 30, PtB)}

ItemsTransit == {[latitude |-> PtA[1], longitude |-> PtA[2], delay_seconds |-> 600]}

ItemsAirQuality == {[latitude |-> PtA[1], longitude |-> PtA[2], pm25 |-> 40]}

\* the timestamp the agent stamps on a stored document
Stamp(item, now) == [timestamp |-> now] @@ item

RawCount == Len(raw_traffic_511) + Len(raw_traffic_dot)
            + Len(raw_transit_mta) + Len(raw_air_quality)

\* IngestionAgent._ingest_traffic_511 storing one fetched item
IngestTraffic511 ==
    /\ RawCount < MaxRaw
    /\ \E item \in Items511 :
          raw_traffic_511' = Append(raw_traffic_511, Stamp(item, utcnow))
    /\ lastOp' = "ingest"
    /\ UNCHANGED <<raw_traffic_dot, raw_transit_mta, raw_air_quality,
                   segments_state, zones_state, utcnow, fusion_runs, fusion_result,
                   ingestion_call>>

\* IngestionAgent._ingest_traffic_dot storing one fetched item
IngestTrafficDot ==
    /\ RawCount < MaxRaw
    /\ \E item \in ItemsDot :
          raw_traffic_dot' = Append(raw_traffic_dot, Stamp(item, utcnow))
    /\ lastOp' = "ingest"
    /\ UNCHANGED <<raw_traffic_511, raw_transit_mta, raw_air_quality,
                   segments_state, zones_state, utcnow, fusion_runs, fusion_result,
                   ingestion_call>>

\* IngestionAgent._ingest_transit_mta storing one fetched item
IngestTransit ==
    /\ RawCount < MaxRaw
    /\ \E item \in ItemsTransit :
          raw_transit_mta' = Append(raw_transit_mta, Stamp(item, utcnow))
    /\ lastOp' = "ingest"
    /\ UNCHANGED <<raw_traffic_511, raw_traffic_dot, raw_air_quality,
                   segments_state, zones_state, utcnow, fusion_runs, fusion_result,
                   ingestion_call>>

\* IngestionAgent._ingest_air_quality storing one fetched item
IngestAirQuality ==
    /\ RawCount < MaxRaw
    /\ \E item \in ItemsAirQuality :
          raw_air_quality' = Append(raw_air_quality, Stamp(item, utcnow))
    /\ lastOp' = "ingest"
    /\ UNCHANGED <<raw_traffic_511, raw_traffic_dot, raw_transit_mta,
                   segments_state, zones_state, utcnow, fusion_runs, fusion_result,
                   ingestion_call>>

\* time passes, one bucket at a time
AdvanceTime ==
    /\ utcnow + bucket_minutes <= MaxTime
    /\ utcnow' = utcnow + bucket_minutes
    /\ lastOp' = "tick"
    /\ UNCHANGED <<raw_traffic_511, raw_traffic_dot, raw_transit_mta,
                   raw_air_quality, segments_state, zones_state, fusion_runs,
                   fusion_result, ingestion_call>>

\* what can go wrong with the storage during one run: nothing, the opening
\* find raises, the lookups of imputation and correlation raise, or the
\* write numbered "at" of the upsert loop (the first one) raises
Faults ==
    {[kind |-> k, at |-> 0] : k \in {"none", "find", "lookups"}}
    \cup {[kind |-> "write", at |-> 1]}

\* CleaningCorrelationAgent.process_raw_data (36-62), one whole run
ProcessRawData ==
    /\ fusion_runs < MaxRuns
    /\ fusion_runs' = fusion_runs + 1
    /\ \E fault \in Faults :
          /\ fault.kind = "write"
                => fault.at <= Len(GroupDocs(GroupDocs(<<>>,
                                       FindSince(raw_traffic_511, utcnow - 60), "511ny"),
                                       FindSince(raw_traffic_dot, utcnow - 60),
                                       "nyc_dot_opendata"))
          /\ \E t \in {process_traffic_data(utcnow - 60, fault)} :
                \E z \in {process_zones(t.coll, utcnow - 60, utcnow, fault)} :
                   /\ segments_state' = t.coll
                   /\ zones_state' = z.coll
                   /\ fusion_result' = [segments_created |-> t.count,
                                         zones_created |-> z.count]
                   /\ lastOp' = IF fault.kind = "none" THEN "fuse" ELSE fault.kind
    /\ UNCHANGED <<raw_traffic_511, raw_traffic_dot, raw_transit_mta,
                   raw_air_quality, utcnow, ingestion_call>>

FusionNext ==
    \/ IngestTraffic511
    \/ IngestTrafficDot
    \/ IngestTransit
    \/ IngestAirQuality
    \/ AdvanceTime
    \/ ProcessRawData

\* the database under ingestion and fusion runs, the orchestrator at rest
FusionSpec ==
    Init /\ [][FusionNext /\ UNCHANGED <<ingestion_in_progress, cleaning_in_progress,
                                         prediction_in_progress, last_ingestion_time,
                                         last_cleaning_time, last_prediction_time,
                                         pc, entry, trace,
                                         predicted_segments, model_trained>>]_vars

(***************************************************************************)
(* IngestionAgent.ingest_all_sources (agent1_ingestion.py 41-85)           *)
(***************************************************************************)
\* a variant whose except clause lets the exception out
ingest_source_reraising(coll, data, fails, now) ==
    IF fails THEN [coll |-> coll, count |-> 0, raised |-> TRUE]
    ELSE IF data = <<>> THEN [coll |-> coll, count |-> 0, raised |-> FALSE]
    ELSE [coll |-> coll \o Map(data, LAMBDA item : Stamp(item, now)),
          count |-> Len(data), raised |-> FALSE]

\* _ingest_traffic_511 (87-131) and its three siblings (133-246): fetch,
\* return 0 on no data, insert_many and return the number inserted; the
\* except clause returns 0.  fails: the client's fetch raises.
ingest_source(coll, data, fails, now) ==
    IF fails THEN [coll |-> coll, count |-> 0, raised |-> FALSE]
    ELSE IF data = <<>> THEN [coll |-> coll, count |-> 0, raised |-> FALSE]
    ELSE [coll |-> coll \o Map(data, LAMBDA item : Stamp(item, now)),
          count |-> Len(data), raised |-> FALSE]

RECURSIVE IngestFrom(_, _, _, _, _)
\* lines 57-84: the four awaits in order inside one try; an exception that
\* reached it would skip the remaining sources and return the results so far
IngestFrom(acc, k, fetched, failing, now) ==
    IF k > Len(Sources) THEN acc
    ELSE LET src == Sources[k]
             one == ingest_source(acc.colls[src], fetched[src], src \in failing, now)
         IN  IF one.raised THEN acc
             ELSE IngestFrom([colls |-> [acc.colls EXCEPT ![src] = one.coll],
                              results |-> [acc.results EXCEPT ![src] = one.count]],
                             k + 1, fetched, failing, now)

\* the four raw collections by the key of their source
RawColls ==
    [src \in SourceSet |->
        CASE src = "traffic_511" -> raw_traffic_511
          [] src = "traffic_dot" -> raw_traffic_dot
          [] src = "transit_mta" -> raw_transit_mta
          [] src = "air_quality" -> raw_air_quality]

ingest_all_sources(fetched, failing, now) ==
    IngestFrom([colls |-> RawColls, results |-> [src \in SourceSet |-> 0]],
               1, fetched, failing, now)

\* what each client may return to one call: nothing or one item
Fetchable ==
    [traffic_511 : {<<>>, <<Item511("S1", 10, PtA, "None")>>},
     traffic_dot : {<<ItemDot("S2", 30, PtB)>>},
     transit_mta : {<<[latitude |-> PtA[1], longitude |-> PtA[2], delay_seconds |-> 600]>>},
     air_quality : {<<[latitude |-> PtA[1], longitude |-> PtA[2], pm25 |-> 40]>>}]

\* one whole call of ingest_all_sources, for any set of failing sources
IngestAllSources ==
    /\ ingestion_call.calls < MaxCalls
    /\ \E failing \in SUBSET SourceSet, f \in Fetchable :
          LET fetched == [src \in SourceSet |-> f[src]]
              done == ingest_all_sources(fetched, failing, utcnow)
          IN  /\ raw_traffic_511' = done.colls["traffic_511"]
              /\ raw_traffic_dot' = done.colls["traffic_dot"]
              /\ raw_transit_mta' = done.colls["transit_mta"]
              /\ raw_air_quality' = done.colls["air_quality"]
              /\ ingestion_call' = [calls |-> ingestion_call.calls + 1,
                                    failing |-> failing,
                                    fetched |-> fetched,
                                    results |-> done.results]
    /\ lastOp' = "ingest"
    /\ UNCHANGED <<segments_state, zones_state, utcnow, fusion_runs, fusion_result>>

\* the raw collections under calls of ingest_all_sources alone
IngestSpec ==
    Init /\ [][IngestAllSources /\ UNCHANGED <<ingestion_in_progress,
                                                cleaning_in_progress,
                                                prediction_in_progress,
                                                last_ingestion_time,
                                                last_cleaning_time,
                                                last_prediction_time,
                                                pc, entry, trace,
                                                predicted_segments,
                                                model_trained>>]_vars

(***************************************************************************)
(* PredictiveCongestionAgent.generate_predictions (agent3_prediction.py)   *)
(* and PredictionService.predict_segment (ml/prediction_service.py)        *)
(***************************************************************************)
\* FeatureEngineer.__init__ (features.py 16): buckets to look back
lookback_windows == {1, 3, 6, 12}

SetMax(S) == CHOOSE x \in S : \A y \in S : y <= x

\* PredictiveCongestionAgent.__init__ (18-25) with the settings' defaults
forecast_windows == <<15, 30>>

Reverse(q) == [k \in 1..Len(q) |-> q[Len(q) + 1 - k]]

\* a variant that builds a feature vector from any history
create_features_unchecked(history) ==
    [present |-> TRUE,
     speed_current |-> history[1].speed_mph,
     congestion_current |-> history[1].congestion_index,
     has_incident |-> IF history[1].incident_flag THEN 1 ELSE 0,
     has_transit_delay |-> IF history[1].transit_delay_flag THEN 1 ELSE 0]

\* FeatureEngineer.create_features (features.py 25-59): nothing for a history
\* shorter than the largest lookback window, else the feature vector, of
\* which the model keeps the entries read from history[0] (lines 93, 124,
\* 145, 147)
create_features(history) ==
    IF history = <<>> \/ Len(history) < SetMax(lookback_windows)
    THEN [present |-> FALSE]
    ELSE [present |-> TRUE,
          speed_current |-> history[1].speed_mph,
          congestion_current |-> history[1].congestion_index,
          has_incident |-> IF history[1].incident_flag THEN 1 ELSE 0,
          has_transit_delay |-> IF history[1].transit_delay_flag THEN 1 ELSE 0]

\* CongestionPredictor.predict (models.py 105-133) given the value the
\* regressor returns: the speed clamped to [5, 50] and its congestion
predict(raw) ==
    LET predicted_speed == RMax(R(5), RMin(R(50), raw))
    IN  <<predicted_speed,
          RMax(R(0), RMin(R(1), RSub(R(1), RDivInt(predicted_speed, 50))))>>

\* a variant whose thresholds are inclusive
determine_risk_level_inclusive(congestion_index, speed_mph) ==
    IF RLe(congestion_index, <<2, 5>>) /\ RLe(R(20), speed_mph) THEN "green"
    ELSE IF RLe(<<7, 10>>, congestion_index) \/ RLe(speed_mph, R(10)) THEN "red"
    ELSE "yellow"

\* PredictionService._determine_risk_level (117-123)
determine_risk_level(congestion_index, speed_mph) ==
    IF RLt(congestion_index, <<2, 5>>) /\ RLt(R(20), speed_mph) THEN "green"
    ELSE IF RLt(<<7, 10>>, congestion_index) \/ RLt(speed_mph, R(10)) THEN "red"
    ELSE "yellow"

\* predict_segment, lines 60-65: the 20 latest records of the last 7 days,
\* found with sort("timestamp_bucket", -1)
recent_history(segment_id, now) ==
    Limit(SortDescBy(SelectSeq(segments_state, LAMBDA d :
                         d.segment_id = segment_id /\ d.timestamp_bucket >= now - 7 * 24 * 60),
                     TsBucket), 20)

\* predict_segment, line 72: history = list(reversed(history)), the list
\* that is passed to create_features at line 81
inference_history(segment_id, now) == Reverse(recent_history(segment_id, now))

\* list.sort(key=timestamp_bucket): smallest first, equal keys in place
sort_by_bucket(q) ==
    LET n == Len(q)
        rank(i) == 1 + Cardinality({j \in 1..n :
                          \/ q[j].timestamp_bucket < q[i].timestamp_bucket
                          \/ q[j].timestamp_bucket = q[i].timestamp_bucket /\ j < i})
    IN  [r \in 1..n |-> q[CHOOSE i \in 1..n : rank(i) = r]]

\* ModelTrainer.prepare_training_data (models.py 216-225): the window of the
\* first i records of a segment's sorted history, reversed, that is passed
\* to create_features
training_window(seg_history, i) == Reverse(SubSeq(sort_by_bucket(seg_history), 1, i))

\* PredictionService.predict_segment (42-115): a sequence of zero or one
\* prediction; raw is what the regressor returns for this call
predict_segment(segment_id, forecast_minutes, raw, now) ==
    LET found == recent_history(segment_id, now)
        history == inference_history(segment_id, now)
        features == create_features(history)
        p == predict(raw)
    IN  IF Len(found) < 3 THEN <<>>
        ELSE IF ~model_trained THEN <<>>
        ELSE IF ~features.present THEN <<>>
        ELSE <<[segment_id |-> segment_id,
                forecast_timestamp |-> now,
                target_timestamp |-> now + forecast_minutes,
                forecast_window_minutes |-> forecast_minutes,
                predicted_speed_mph |-> p[1],
                predicted_congestion_index |-> p[2],
                risk_level |-> determine_risk_level(p[2], p[1]),
                confidence_score |-> RMin(R(1), RDivInt(R(Len(history)), 20)),
                last_updated |-> now]>>

\* a variant that inserts a new document on every write
insert_prediction(coll, prediction) == Append(coll, prediction)

\* lines 62-70: the upsert keyed by (segment_id, forecast_window_minutes)
upsert_prediction(coll, prediction) ==
    update_one_upsert(coll,
                      LAMBDA d : /\ d.segment_id = prediction.segment_id
                                 /\ d.forecast_window_minutes
                                      = prediction.forecast_window_minutes,
                      prediction)

\* find(...).distinct("segment_id"), in order of first appearance
Distinct(docs) ==
    LET firsts == {k \in 1..Len(docs) :
                      \A j \in 1..(k - 1) : docs[j].segment_id # docs[k].segment_id}
        nth(r) == CHOOSE k \in firsts : Cardinality({j \in firsts : j < k}) = r - 1
    IN  [r \in 1..Cardinality(firsts) |-> docs[nth(r)].segment_id]

RECURSIVE PredictAll(_, _, _, _, _)
\* lines 55-75: the loops over segments and forecast windows; w is the
\* index of the next window of the first segment
PredictAll(acc, segments, w, raw, now) ==
    IF segments = <<>> THEN acc
    ELSE IF w > Len(forecast_windows) THEN PredictAll(acc, Tail(segments), 1, raw, now)
    ELSE LET segment_id == Head(segments)
             window_minutes == forecast_windows[w]
             prediction == predict_segment(segment_id, window_minutes,
                                           raw[segment_id], now)
             coll == IF prediction = <<>> THEN acc.coll
                     ELSE upsert_prediction(acc.coll, prediction[1])
         IN  PredictAll([coll |-> coll,
                         count |-> IF coll # acc.coll THEN acc.count + 1 ELSE acc.count],
                        segments, w + 1, raw, now)

\* generate_predictions (27-79) as a whole
generate_predictions(raw, now) ==
    LET cutoff_time == now - 24 * 60
        recent == Distinct(SelectSeq(segments_state, LAMBDA d :
                               d.timestamp_bucket >= cutoff_time))
        segments == IF recent # <<>> THEN recent ELSE Distinct(segments_state)
    IN  PredictAll([coll |-> predicted_segments, count |-> 0], segments, 1, raw, now)

\* what the regressor may return; it is given the same feature vector for
\* both forecast windows of a segment
RawPredictions == {R(2), R(30), R(80)}

\* one whole run of generate_predictions
GeneratePredictions ==
    /\ \E raw \in [Segments -> RawPredictions] :
          predicted_segments' = generate_predictions(raw, utcnow).coll
    /\ lastOp' = "predict"
    /\ UNCHANGED <<raw_traffic_511, raw_traffic_dot, raw_transit_mta, raw_air_quality,
                   segments_state, zones_state, utcnow, fusion_runs, fusion_result,
                   ingestion_call, model_trained>>

\* a SegmentState fusion wrote k buckets ago, on a road that has been
\* slowing down by 1 mph a bucket and has an incident in the latest bucket
HistoryDoc(segment_id, k) ==
    [segment_id |-> segment_id,
     timestamp_bucket |-> 0 - bucket_minutes * k,
     speed_mph |-> R(30 + k),
     congestion_index |-> calculate_congestion_index(R(30 + k)),
     incident_flag |-> (k = 1),
     transit_delay_flag |-> FALSE,
     pm25_nearby |-> NoneR,
     data_confidence_score |-> calculate_confidence_score(TRUE, FALSE, FALSE, "good"),
     latitude |-> PtA[1],
     longitude |-> PtA[2],
     sources |-> {"511ny"},
     borough |-> get_borough_from_coordinates(PtA[1], PtA[2])]

History(segment_id, n) == [k \in 1..n |-> HistoryDoc(segment_id, k)]

\* how many buckets of history a segment may have
HistoryLens == {0, 2, 11, 12}

\* a prediction left by a run made when the segment had a longer history
StalePrediction ==
    [segment_id |-> "S1",
     forecast_timestamp |-> 0 - 7 * 24 * 60,
     target_timestamp |-> 15 - 7 * 24 * 60,
     forecast_window_minutes |-> 15,
     predicted_speed_mph |-> R(30),
     predicted_congestion_index |-> <<2, 5>>,
     risk_level |-> "yellow",
     confidence_score |-> <<3, 5>>,
     last_updated |-> 0 - 7 * 24 * 60]

PredictInit ==
    /\ OrchInit
    /\ raw_traffic_511 = <<>>
    /\ raw_traffic_dot = <<>>
    /\ raw_transit_mta = <<>>
    /\ raw_air_quality = <<>>
    /\ \E n1, n2 \in HistoryLens :
          segments_state = History("S1", n1) \o History("S2", n2)
    /\ zones_state = <<>>
    /\ lastOp = "init"
    /\ fusion_runs = 0
    /\ fusion_result = [segments_created |-> None, zones_created |-> None]
    /\ ingestion_call = [calls |-> 0, failing |-> {},
                         fetched |-> [src \in SourceSet |-> <<>>],
                         results |-> [src \in SourceSet |-> 0]]
    /\ predicted_segments \in {<<>>, <<StalePrediction>>}
    /\ model_trained \in BOOLEAN

PredictTick ==
    /\ AdvanceTime
    /\ UNCHANGED <<predicted_segments, model_trained>>

\* forecast runs over a stored history
PredictSpec ==
    PredictInit
    /\ [][(GeneratePredictions \/ PredictTick)
            /\ UNCHANGED <<ingestion_in_progress, cleaning_in_progress,
                           prediction_in_progress, last_ingestion_time,
                           last_cleaning_time, last_prediction_time,
                           pc, entry, trace>>]_vars

\* the same tasks with the clock standing still, the interval timers of the
\* cleaning and forecast jobs firing fairly and every awaited call returning
LiveNext == (\E t \in Tasks : TaskStep(t)) /\ UNCHANGED dbVars

LiveSpec ==
    /\ Init
    /\ [][LiveNext]_vars
    /\ WF_vars(Invoke("mcp_cleaning_cycle") /\ UNCHANGED dbVars)
    /\ WF_vars(Invoke("mcp_forecast_jobs") /\ UNCHANGED dbVars)
    /\ \A t \in Tasks :
          /\ WF_vars(FinishIngestion(t) /\ UNCHANGED dbVars)
          /\ WF_vars(FinishSleep(t) /\ UNCHANGED dbVars)
          /\ WF_vars(FinishCleaning(t) /\ UNCHANGED dbVars)
          /\ WF_vars(FinishPrediction(t) /\ UNCHANGED dbVars)
          /\ WF_vars(Release(t) /\ UNCHANGED dbVars)

\* an operator request on the route of coroutine e
Trigger(e) ==
    /\ Invoke("request")
    /\ entry'["request"] = e
    /\ UNCHANGED dbVars

\* LiveSpec without the assumption that the process_raw_data awaited by the
\* cleaning job returns: no await of mcp_server.py carries a timeout
\* (asyncio.wait_for is used nowhere), so that call may stay pending for
\* ever.  Every other awaited call returns, the timers fire fairly and the
\* operator keeps requesting /api/orchestrator/cleaning.
HangSpec ==
    /\ Init
    /\ [][LiveNext]_vars
    /\ WF_vars(Invoke("mcp_ingestion_cycle") /\ UNCHANGED dbVars)
    /\ WF_vars(Invoke("mcp_cleaning_cycle") /\ UNCHANGED dbVars)
    /\ SF_vars(Trigger("run_after_ingestion"))
    /\ \A t \in Tasks :
          /\ WF_vars(FinishIngestion(t) /\ UNCHANGED dbVars)
          /\ WF_vars(FinishSleep(t) /\ UNCHANGED dbVars)
          /\ WF_vars(FinishCleaning(t) /\ t # "mcp_cleaning_cycle" /\ UNCHANGED dbVars)
          /\ WF_vars(FinishPrediction(t) /\ UNCHANGED dbVars)
          /\ WF_vars(Release(t) /\ UNCHANGED dbVars)

(***************************************************************************)
(* Part I : properties                                                     *)
(***************************************************************************)
Flag(s) ==
    CASE s = "ingestion"  -> ingestion_in_progress
      [] s = "cleaning"   -> cleaning_in_progress
      [] s = "prediction" -> prediction_in_progress

\* task t is inside the agent call of stage s
InBody(t, s) == pc[t] = BodyLabel(s)

\* task t is between the assignment flag = True and the finally clause of s
HoldsGuard(t, s) ==
    CASE s = "ingestion"  -> /\ entry[t] = "schedule_run_cycles"
                             /\ pc[t] \in {"ingest_all_sources", "sleep",
                                           "process_raw_data"}
      [] s = "cleaning"   -> /\ pc[t] = "process_raw_data"
                             /\ entry[t] # "run_refresh_cycle"
      [] s = "prediction" -> /\ pc[t] = "generate_predictions"
                             /\ entry[t] # "run_refresh_cycle"

\* the stage a single-stage coroutine runs
StageOf(e) ==
    CASE e = "schedule_run_cycles" -> "ingestion"
      [] e = "run_ingestion_cycle" -> "ingestion"
      [] e = "run_after_ingestion" -> "cleaning"
      [] e = "run_forecast_jobs"   -> "prediction"

Ev(stage, what) == <<stage, what>>
Ran(stage, r) == <<Ev(stage, "start"), Ev(stage, r)>>
Attempts(stage) == {<<Ev(stage, "skipped")>>} \cup {Ran(stage, r) : r \in Outcomes}

IsPrefix(a, b) == Len(a) <= Len(b) /\ SubSeq(b, 1, Len(a)) = a

\* C1: for each stage at most one execution of the stage's body is in
\* progress, whatever the interleaving of ticks, manual triggers and the
\* refresh cycle.
C1_SingleFlight ==
    \A s \in Stages : Cardinality({t \in Tasks : InBody(t, s)}) <= 1

\* C2: a single-stage manual trigger that arrives while a scheduled run of
\* the same stage is in its body is answered "Already in progress" and does
\* not start the body.
C2_ManualRejectedWhileScheduled ==
    [][\A e \in {"run_ingestion_cycle", "run_after_ingestion", "run_forecast_jobs"} :
         ( /\ pc["request"] = "idle"
           /\ pc'["request"] # "idle"
           /\ entry'["request"] = e
           /\ \E j \in Jobs : InBody(j, StageOf(e)) )
         => /\ pc'["request"] = "returned"
            /\ trace'["request"] = <<Ev(StageOf(e), "skipped")>>]_vars

\* C3: a stage's in-progress flag is set exactly while some execution is
\* between setting it and its finally clause; once that execution has left,
\* by return or by exception, the flag is false again.
C3_FlagReleased ==
    \A s \in Stages : Flag(s) <=> (\E t \in Tasks : HoldsGuard(t, s))

\* a cleaning run crashed, and a later tick of the cleaning job is running
C3_Witness ==
    /\ pc["request"] = "returned"
    /\ trace["request"] = Ran("cleaning", "error")
    /\ entry["request"] = "run_after_ingestion"
    /\ pc["mcp_cleaning_cycle"] = "process_raw_data"
    /\ cleaning_in_progress

\* C4: a tick of a job that finds its stage's flag set returns at once and
\* leaves every flag and every last-run time as it was.
C4_SkippedTickNoOp ==
    [][\A j \in Jobs :
         ( /\ pc[j] = "idle"
           /\ pc'[j] # "idle"
           /\ Flag(StageOf(JobFunc(j))) )
         => /\ pc'[j] = "returned"
            /\ trace'[j] = <<Ev(StageOf(JobFunc(j)), "skipped")>>
            /\ UNCHANGED <<ingestion_in_progress, cleaning_in_progress,
                           prediction_in_progress, last_ingestion_time,
                           last_cleaning_time, last_prediction_time>>
            /\ \A t \in Tasks \ {j} : pc'[t] = pc[t]]_vars

\* the forecast job was turned away while a manual forecast holds the flag
C4_Witness ==
    /\ pc["mcp_forecast_jobs"] = "returned"
    /\ trace["mcp_forecast_jobs"] = <<Ev("prediction", "skipped")>>
    /\ prediction_in_progress
    /\ pc["request"] = "generate_predictions"

\* what a finished full cycle may have done, in order
FullCycles ==
    {Ran("ingestion", "ok") \o c \o p :
        c \in Attempts("cleaning"), p \in Attempts("prediction")}
    \cup {Ran("ingestion", "error") \o p : p \in Attempts("prediction")}

\* C8: orchestrate_agents runs ingestion, then cleaning only if ingestion
\* succeeded, then always attempts the forecast, each stage ending before the
\* next begins.
C8_FullCycleOrder ==
    \A t \in Tasks :
        entry[t] = "orchestrate_agents" =>
            /\ pc[t] = "returned" => trace[t] \in FullCycles
            /\ pc[t] # "returned" =>
                 /\ \E f \in FullCycles : IsPrefix(trace[t], f)
                 /\ trace[t][Len(trace[t])][2] = "start"
                 /\ pc[t] = BodyLabel(trace[t][Len(trace[t])][1])

\* a full cycle whose cleaning was turned away still ran the forecast
C8_Witness ==
    /\ entry["request"] = "orchestrate_agents"
    /\ pc["request"] = "returned"
    /\ trace["request"] = Ran("ingestion", "ok") \o <<Ev("cleaning", "skipped")>>
                            \o Ran("prediction", "ok")

\* what a finished scheduled ingestion cycle may have done, in order
ScheduledCycles ==
    {Ran("ingestion", "ok") \o <<Ev("sleep", "done")>> \o c :
        c \in Attempts("cleaning")}
    \cup {Ran("ingestion", "error"), <<Ev("ingestion", "skipped")>>}

\* C9: in schedule_run_cycles the cleaning stage is triggered exactly when
\* the ingestion cycle reported success, and then only after ingestion has
\* returned and the sleep has elapsed.
C9_ChainedAfterSuccess ==
    \A t \in Tasks :
        entry[t] = "schedule_run_cycles" =>
            /\ pc[t] = "returned" => trace[t] \in ScheduledCycles
            /\ pc[t] = "ingest_all_sources" => trace[t] = <<Ev("ingestion", "start")>>
            /\ pc[t] = "sleep" => trace[t] = Ran("ingestion", "ok")
            /\ pc[t] = "process_raw_data" =>
                   trace[t] = Ran("ingestion", "ok") \o
                              <<Ev("sleep", "done"), Ev("cleaning", "start")>>
            /\ pc[t] \in {"returned", "ingest_all_sources", "sleep", "process_raw_data"}

\* a scheduled cycle that ingested, slept and then ran the cleaning stage
C9_Witness ==
    /\ pc["mcp_ingestion_cycle"] = "returned"
    /\ trace["mcp_ingestion_cycle"] =
          Ran("ingestion", "ok") \o <<Ev("sleep", "done")>> \o Ran("cleaning", "ok")

\* C10: with the interval timers firing fairly and bodies terminating, the
\* cleaning stage and the forecast stage are each executed again and again.
C10_StagesRecur ==
    /\ []<>(\E t \in Tasks : InBody(t, "cleaning"))
    /\ []<>(\E t \in Tasks : InBody(t, "prediction"))

\* a scheduled cycle whose chained cleaning trigger was skipped
C10_Witness ==
    /\ pc["mcp_ingestion_cycle"] = "returned"
    /\ trace["mcp_ingestion_cycle"] =
          Ran("ingestion", "ok") \o <<Ev("sleep", "done"), Ev("cleaning", "skipped")>>

(***************************************************************************)
(* Properties of fusion                                                    *)
(***************************************************************************)
SegmentKey(d) == <<d.segment_id, d.timestamp_bucket>>
ZoneKey(d) == <<d.zone_id, d.timestamp_bucket>>

\* the raw 511 observations whose coordinates the validator rejects
InvalidRaw511 ==
    {k \in 1..Len(raw_traffic_511) :
        ~is_valid_coordinate(raw_traffic_511[k].latitude, raw_traffic_511[k].longitude)}

\* C5: a fusion run that directly follows a fusion run, over the same raw
\* observations and at the same time, leaves under every key of
\* segments_state the SegmentState the first run left there.
C5_FusionIdempotent ==
    [][(lastOp = "fuse" /\ lastOp' = "fuse")
         => \A k \in 1..Len(segments_state) :
               \E j \in 1..Len(segments_state') :
                  segments_state'[j] = segments_state[k]]_vars

\* C6: segments_state holds at most one record per (segment_id,
\* timestamp_bucket) and zones_state at most one per (zone_id,
\* timestamp_bucket), after any sequence of fusion runs.
C6_OneRecordPerKey ==
    /\ \A j, k \in 1..Len(segments_state) :
          SegmentKey(segments_state[j]) = SegmentKey(segments_state[k]) => j = k
    /\ \A j, k \in 1..Len(zones_state) :
          ZoneKey(zones_state[j]) = ZoneKey(zones_state[k]) => j = k

\* two runs in the same bucket have each written the same two segment keys
\* and the same zone key: the speed 15 is the second run's mean of the 20
\* and the 10 the first run stored
C6_Witness ==
    /\ fusion_runs = 2
    /\ lastOp = "fuse"
    /\ Len(segments_state) = 2
    /\ segments_state[1].timestamp_bucket = 0
    /\ segments_state[1].speed_mph = R(15)
    /\ Len(zones_state) = 1
    /\ zones_state[1].segment_count = 2

\* C7: every SegmentState in segments_state has coordinates the validator
\* accepts, whatever the coordinates of the observations, and coordinate
\* imputation returns a point the validator accepts for every segment,
\* whether its storage lookups succeed or raise.
C7_StoredCoordinatesValid ==
    /\ \A k \in 1..Len(segments_state) :
          is_valid_coordinate(segments_state[k].latitude, segments_state[k].longitude)
    /\ \A segment_id \in Segments, fail \in BOOLEAN :
          LET c == impute_coordinates(segment_id, fail)
          IN  is_valid_coordinate(c[1], c[2])

\* a run whose lookups raised has stored, at the default point, a segment
\* whose only observations carry coordinates the validator rejects
C7_Witness ==
    /\ lastOp = "lookups"
    /\ Len(raw_traffic_511) = 2
    /\ InvalidRaw511 = {1, 2}
    /\ raw_traffic_511[1].latitude = NaN
    /\ raw_traffic_511[2].latitude = 0
    /\ Len(segments_state) = 2
    /\ \A k \in 1..2 :
          /\ segments_state[k].latitude = NYC_DEFAULT_LAT
          /\ segments_state[k].longitude = NYC_DEFAULT_LON

(***************************************************************************)
(* Properties of a hung stage                                              *)
(***************************************************************************)
\* task t is a scheduler job or an operator request inside process_raw_data
\* through the orchestrator (run_after_ingestion)
CleaningStartedBy(t) ==
    /\ t \in Jobs \cup {"request"}
    /\ pc[t] = "process_raw_data"

\* C11: if the process_raw_data awaited by the cleaning job never completes,
\* then again and again a later tick or manual trigger of the cleaning stage
\* is inside a new execution of the stage.
C11_HangDoesNotBlock ==
    <>[](pc["mcp_cleaning_cycle"] = "process_raw_data")
        => []<>(\E t \in Tasks \ {"mcp_cleaning_cycle"} : CleaningStartedBy(t))

(***************************************************************************)
(* Properties of fusion under storage failures                             *)
(***************************************************************************)
\* the documents in a collection
Docs(coll) == {coll[k] : k \in 1..Len(coll)}

\* C12: when one write of the upsert loop raises, every other record of the
\* batch is in segments_state after the run, and the count the run reports
\* is the number of records of the batch it inserted or modified.
C12_WriteFailureDropsOneRecord ==
    [][(lastOp' = "write" /\ fusion_runs' = fusion_runs + 1)
         => LET batch == SegmentsToInsert(utcnow - 60, FALSE)
            IN  \E n \in 1..Len(batch) :
                   /\ \A k \in 1..Len(batch) \ {n} : batch[k] \in Docs(segments_state')
                   /\ fusion_result'.segments_created
                        = Cardinality({k \in 1..Len(batch) \ {n} :
                                          batch[k] \notin Docs(segments_state)})]_vars

HistoryOf(segment_id, now) ==
    SelectSeq(segments_state, LAMBDA d :
        d.segment_id = segment_id /\ d.timestamp_bucket >= now - 7 * 24 * 60)

PredictionsOf(coll, segment_id) == {d \in Docs(coll) : d.segment_id = segment_id}

\* C14: a forecast run leaves the stored predictions of every segment with
\* fewer than 12 buckets of history as they were (none are added or
\* changed), and with a trained model it still writes, for every forecast
\* window, a prediction for each segment that has 12 buckets.
C14_ShortHistorySkipped ==
    [][lastOp' = "predict"
         => \A segment_id \in Segments :
               IF Len(HistoryOf(segment_id, utcnow)) < 12
               THEN PredictionsOf(predicted_segments', segment_id)
                      = PredictionsOf(predicted_segments, segment_id)
               ELSE model_trained
                      => \A w \in {15, 30} :
                            \E d \in PredictionsOf(predicted_segments', segment_id) :
                               /\ d.forecast_window_minutes = w
                               /\ d.forecast_timestamp = utcnow]_vars

\* a run has left the stale prediction of S1, whose history has 11 buckets,
\* and written both windows for S2, whose history has 12
C14_Witness ==
    /\ lastOp = "predict"
    /\ Len(HistoryOf("S1", utcnow)) = 11
    /\ Len(HistoryOf("S2", utcnow)) = 12
    /\ PredictionsOf(predicted_segments, "S1") = {StalePrediction}
    /\ Cardinality(PredictionsOf(predicted_segments, "S2")) = 2

(***************************************************************************)
(* Properties of the imputation policies                                   *)
(***************************************************************************)
\* the documents of a collection that belong to a segment and carry
\* coordinates the validator accepts
ValidOf(coll, segment_id) ==
    {d \in Docs(coll) : /\ d.segment_id = segment_id
                        /\ is_valid_coordinate(d.latitude, d.longitude)}

\* C15: the coordinates imputed for a segment are those of its most recent
\* SegmentState with valid coordinates; failing that, those of its most
\* recent raw observation with valid coordinates; and the regional centre
\* only when neither exists.
C15_CoordinateImputationOrder ==
    \A segment_id \in Segments :
       LET c == impute_coordinates(segment_id, FALSE)
           H == ValidOf(segments_state, segment_id)
           W == ValidOf(raw_traffic_511, segment_id) \cup ValidOf(raw_traffic_dot, segment_id)
       IN  IF H # {}
           THEN \E d \in H : /\ \A e \in H : e.timestamp_bucket <= d.timestamp_bucket
                             /\ c = <<d.latitude, d.longitude>>
           ELSE IF W # {}
           THEN \E d \in W : /\ \A e \in W : e.timestamp <= d.timestamp
                             /\ c = <<d.latitude, d.longitude>>
           ELSE c = <<NYC_DEFAULT_LAT, NYC_DEFAULT_LON>>

\* the speeds stored for the records of segments_state that satisfy keep and
\* lie in the 30 minutes up to the bucket
SpeedsUpTo(timestamp, keep(_)) ==
    TruthySpeeds(SelectSeq(segments_state, LAMBDA d :
        /\ keep(d)
        /\ timestamp - 30 <= d.timestamp_bucket
        /\ d.timestamp_bucket <= timestamp))

\* the imputation policy as the specification words it; the place of a
\* segment is that of its latest SegmentState
PolicySpeed(segment_id, timestamp) ==
    LET own == SpeedsUpTo(timestamp, LAMBDA d : d.segment_id = segment_id)
        at == Limit(SortDescBy(SelectSeq(segments_state, LAMBDA d :
                        d.segment_id = segment_id), TsBucket), 1)
        near == IF at = <<>> THEN <<>>
                ELSE SpeedsUpTo(timestamp, LAMBDA d :
                        /\ at[1].latitude - 100 <= d.latitude
                        /\ d.latitude <= at[1].latitude + 100
                        /\ at[1].longitude - 100 <= d.longitude
                        /\ d.longitude <= at[1].longitude + 100)
    IN  IF own # <<>> THEN Mean(own)
        ELSE IF near # <<>> THEN Mean(near)
        ELSE R(20)

\* C16: the speed imputed for a bucket without a valid speed is the mean of
\* the segment's own speeds of the last 30 minutes up to that bucket, else
\* the mean of the speeds of the segments nearby over those 30 minutes, else
\* the default 20.
C16_SpeedImputationPolicy ==
    \A segment_id \in Segments, timestamp \in {0, bucket_minutes} :
       impute_missing_speed(segment_id, timestamp, FALSE)
          = PolicySpeed(segment_id, timestamp)

(***************************************************************************)
(* Properties of the fused values                                          *)
(***************************************************************************)
\* the positive speeds reported for a (segment, bucket) group by the raw
\* observations a fusion run at time now reads
PositiveSpeeds(segment_id, bucket, now) ==
    LET reported == FindSince(raw_traffic_511, now - 60) \o FindSince(raw_traffic_dot, now - 60)
        group == SelectSeq(reported, LAMBDA d :
                     /\ d.segment_id = segment_id
                     /\ get_time_bucket(d.timestamp) = bucket
                     /\ d.speed_mph > 0)
    IN  Map(group, LAMBDA d : R(d.speed_mph))

\* C17: the speed_mph fusion computes for a group that has positive
\* reported speeds (of mean at most 100) is the mean of exactly those.
C17_MeanOfPositiveSpeeds ==
    LET batch == SegmentsToInsert(utcnow - 60, FALSE)
    IN  \A k \in 1..Len(batch) :
           LET pos == PositiveSpeeds(batch[k].segment_id, batch[k].timestamp_bucket, utcnow)
           IN  (pos # <<>> /\ RLe(Mean(pos), R(100)))
                  => batch[k].speed_mph = Mean(pos)

C19_ConfidenceScore ==
    /\ \A traffic, transit, air \in BOOLEAN, quality \in {"good", "imputed", "missing"} :
          LET score == calculate_confidence_score(traffic, transit, air, quality)
          IN  RLe(R(0), score) /\ RLe(score, R(1))
    /\ \A transit, air \in BOOLEAN :
          RLt(calculate_confidence_score(FALSE, transit, air, "imputed"),
              calculate_confidence_score(TRUE, transit, air, "good"))
    /\ \A k \in 1..Len(segments_state) :
          /\ RLe(R(0), segments_state[k].data_confidence_score)
          /\ RLe(segments_state[k].data_confidence_score, R(1))

\* the store holds a SegmentState built from a reading (0.6) and one built
\* from an imputed speed (0.3 * 0.8), neither with transit or air data
C19_Witness ==
    /\ lastOp = "fuse"
    /\ Len(segments_state) = 2
    /\ Len(raw_traffic_511) = 2
    /\ raw_traffic_511[1].speed_mph = 10
    /\ raw_traffic_511[2].speed_mph = None
    /\ segments_state[1].data_confidence_score = <<3, 5>>
    /\ segments_state[2].data_confidence_score = <<6, 25>>

\* speeds below, at and above the ends of the scale, and between them
SpeedSamples ==
    {R(x) : x \in {-20, 0, 12, 25, 50, 120}} \cup {<<1, 2>>, <<99, 2>>, <<101, 2>>}

Clamp01(x) == RMax(R(0), RMin(R(1), x))

\* C20: calculate_congestion_index is 0 from 50 mph up, 1 from 0 mph down,
\* within [0,1] and non-increasing in the speed, and equal to
\* clamp(1 - speed/50, 0, 1); every stored SegmentState carries the index
\* of its speed.
C20_CongestionIndex ==
    /\ \A speed \in SpeedSamples :
          LET index == calculate_congestion_index(speed)
          IN  /\ RLe(R(50), speed) => index = R(0)
              /\ RLe(speed, R(0)) => index = R(1)
              /\ RLe(R(0), index) /\ RLe(index, R(1))
              /\ index = Clamp01(RSub(R(1), RDivInt(speed, 50)))
    /\ \A a, b \in SpeedSamples :
          RLe(a, b) => RLe(calculate_congestion_index(b), calculate_congestion_index(a))
    /\ calculate_congestion_index(R(12)) = <<19, 25>>
    /\ \A k \in 1..Len(segments_state) :
          segments_state[k].congestion_index
             = Clamp01(RSub(R(1), RDivInt(segments_state[k].speed_mph, 50)))

\* the store holds a SegmentState at the cap (index 0) and one at the
\* default 20 mph (index 0.6)
C20_Witness ==
    /\ lastOp = "fuse"
    /\ Len(segments_state) = 2
    /\ segments_state[1].speed_mph = R(100)
    /\ segments_state[1].congestion_index = R(0)
    /\ segments_state[2].speed_mph = R(20)
    /\ segments_state[2].congestion_index = <<3, 5>>

(***************************************************************************)
(* Properties of zone aggregation                                          *)
(***************************************************************************)
\* the accumulators _process_zones would build from the records of coll
\* that lie in one bucket
ZonesOfBucket(coll, bucket) ==
    GroupZones(<<>>, SelectSeq(coll, LAMBDA d : d.timestamp_bucket = bucket))

\* C21: every ZoneState a fusion run leaves under (zone_id, bucket of the
\* run) is the aggregate (averages, counts, bounding box) of exactly the
\* SegmentStates of that zone whose timestamp_bucket is that bucket.
C21_ZoneFromSameBucket ==
    [][lastOp' = "fuse"
         => \A k \in 1..Len(zones_state') :
               LET z == zones_state'[k]
                   zs == ZonesOfBucket(segments_state', z.timestamp_bucket)
               IN  z.timestamp_bucket = get_time_bucket(utcnow)
                      => \E j \in 1..Len(zs) :
                            /\ zs[j].zone_id = z.zone_id
                            /\ ZoneDoc(zs[j], z.timestamp_bucket) = z]_vars

\* the records of coll with their coordinates replaced by a rejected pair
Misplaced(coll, lat, lon) ==
    [k \in 1..Len(coll) |-> [coll[k] EXCEPT !.latitude = lat, !.longitude = lon]]

\* the records of coll whose coordinates the validator accepts
ValidCount(coll) ==
    Cardinality({k \in 1..Len(coll) :
                    is_valid_coordinate(coll[k].latitude, coll[k].longitude)})

\* C22: every ZoneState in zones_state has segment_count >= 1, averages of
\* speed and congestion that are not null, a bounding box of accepted
\* coordinates and incident_count, transit_delay_count <= segment_count;
\* and grouping counts only segments the validator accepts: records with
\* rejected coordinates add nothing to any zone and yield no zone alone.
C22_ZoneHasValidMembers ==
    /\ \A k \in 1..Len(zones_state) :
          LET z == zones_state[k]
          IN  /\ z.segment_count >= 1
              /\ z.segment_count <= ValidCount(segments_state)
              /\ z.avg_speed_mph # NoneR
              /\ z.avg_congestion_index # NoneR
              /\ is_valid_coordinate(z.bounding_box.min_lat, z.bounding_box.min_lon)
              /\ is_valid_coordinate(z.bounding_box.max_lat, z.bounding_box.max_lon)
              /\ z.bounding_box.min_lat <= z.bounding_box.max_lat
              /\ z.bounding_box.min_lon <= z.bounding_box.max_lon
              /\ 0 <= z.incident_count /\ z.incident_count <= z.segment_count
              /\ 0 <= z.transit_delay_count /\ z.transit_delay_count <= z.segment_count
    /\ \A pt \in {<<0, 0>>, <<NaN, NaN>>, <<None, None>>, <<NYC_MAX_LAT + 1, NYC_MIN_LON>>} :
          LET bad == Misplaced(segments_state, pt[1], pt[2])
          IN  /\ GroupZones(<<>>, bad \o segments_state \o bad)
                    = GroupZones(<<>>, segments_state)
              /\ GroupZones(<<>>, bad) = <<>>

\* a run has stored one zone of two members, one of them a segment whose
\* only observation carried coordinates the validator rejects
C22_Witness ==
    /\ lastOp = "fuse"
    /\ InvalidRaw511 # {}
    /\ Len(segments_state) = 2
    /\ Len(zones_state) = 1
    /\ zones_state[1].segment_count = 2

(***************************************************************************)
(* Properties of the stored predictions                                    *)
(***************************************************************************)
\* the positions in coll of the predictions stored under one key
PredictionKeys(coll, segment_id, window_minutes) ==
    {k \in 1..Len(coll) : /\ coll[k].segment_id = segment_id
                          /\ coll[k].forecast_window_minutes = window_minutes}

\* C23: after a forecast run predicted_segments holds at most one prediction
\* per (segment_id, forecast_window_minutes); under a key the run produced a
\* prediction for it holds that prediction, and under every other key what
\* it held before the run.
C23_LatestPredictionWins ==
    [][lastOp' = "predict"
         => \E raw \in [Segments -> RawPredictions] :
               \A segment_id \in Segments, w \in {15, 30} :
                  LET made == predict_segment(segment_id, w, raw[segment_id], utcnow)
                      before == PredictionKeys(predicted_segments, segment_id, w)
                      after == PredictionKeys(predicted_segments', segment_id, w)
                  IN  /\ Cardinality(after) <= 1
                      /\ IF made # <<>>
                         THEN after # {} /\ \A k \in after : predicted_segments'[k] = made[1]
                         ELSE {predicted_segments'[k] : k \in after}
                                = {predicted_segments[k] : k \in before}]_vars

\* a run at minute 5 has replaced the stale prediction of (S1, 15) and holds
\* one prediction under each of the four keys, all made at minute 5, with
\* different speeds for the two segments
C23_Witness ==
    /\ lastOp = "predict"
    /\ utcnow = bucket_minutes
    /\ Len(predicted_segments) = 4
    /\ StalePrediction \notin Docs(predicted_segments)
    /\ \A k \in 1..4 : predicted_segments[k].forecast_timestamp = bucket_minutes
    /\ predicted_segments[1].segment_id = "S1"
    /\ predicted_segments[1].forecast_window_minutes = 15
    /\ predicted_segments[1].predicted_speed_mph = R(5)
    /\ predicted_segments[3].predicted_speed_mph = R(50)

\* congestion indices and speeds below, at and above each threshold
RiskCongestions == {R(0), <<39, 100>>, <<2, 5>>, <<1, 2>>, <<7, 10>>, <<71, 100>>, <<3, 4>>, R(1)}

RiskSpeeds == {R(0), R(9), R(10), R(15), R(20), R(21), R(50)}

\* C24: _determine_risk_level gives "green" when congestion < 0.4 and
\* speed > 20, "red" when congestion > 0.7 or speed < 10 and "yellow" in
\* every other case; congestion 0.75 with speed 9 gives "red"; and every
\* stored prediction carries the level of its own congestion and speed.
C24_RiskLevel ==
    /\ \A c \in RiskCongestions, v \in RiskSpeeds :
          LET level == determine_risk_level(c, v)
              green == RLt(c, <<2, 5>>) /\ RLt(R(20), v)
              red == RLt(<<7, 10>>, c) \/ RLt(v, R(10))
          IN  /\ green => level = "green"
              /\ red => level = "red"
              /\ (~green /\ ~red) => level = "yellow"
              /\ level \in {"green", "yellow", "red"}
    /\ determine_risk_level(<<3, 4>>, R(9)) = "red"
    /\ \A k \in 1..Len(predicted_segments) :
          LET d == predicted_segments[k]
          IN  d.risk_level = IF RLt(d.predicted_congestion_index, <<2, 5>>)
                                  /\ RLt(R(20), d.predicted_speed_mph) THEN "green"
                             ELSE IF RLt(<<7, 10>>, d.predicted_congestion_index)
                                  \/ RLt(d.predicted_speed_mph, R(10)) THEN "red"
                             ELSE "yellow"

\* a run has stored a red prediction (5 mph) and a yellow one (30 mph, index
\* exactly 0.4, which is not below the green threshold)
C24_Witness ==
    /\ lastOp = "predict"
    /\ \E j, k \in 1..Len(predicted_segments) :
          /\ predicted_segments[j].risk_level = "red"
          /\ predicted_segments[j].predicted_speed_mph = R(5)
          /\ predicted_segments[k].risk_level = "yellow"
          /\ predicted_segments[k].predicted_congestion_index = <<2, 5>>
          /\ predicted_segments[k].forecast_timestamp = utcnow

(***************************************************************************)
(* Properties of the status report and of the trigger results              *)
(***************************************************************************)
\* task t leaves the body of stage s in this step, the body having returned
BodyReturned(t, s) ==
    /\ pc[t] = BodyLabel(s)
    /\ Len(trace'[t]) > Len(trace[t])
    /\ trace'[t][Len(trace[t]) + 1] = Ev(s, "ok")

\* C25: get_status reports for each stage in_progress = true exactly while
\* some task, whatever its entry point, is inside the stage's body, and a
\* last_run that is the time at which the stage's latest run returned: it
\* becomes the clock's value when a body returns and changes at no other
\* step.
C25_StatusReflectsStages ==
    /\ [](\A s \in Stages :
             StatusOf(s).in_progress <=> (\E t \in Tasks : InBody(t, s)))
    /\ [][\A s \in Stages :
             IF \E t \in Tasks : BodyReturned(t, s)
             THEN StatusOf(s)'.last_run = isoformat(utcnow)
             ELSE StatusOf(s)'.last_run = StatusOf(s).last_run]_vars

\* how the attempt at a stage recorded in a trace ended ("none": no attempt)
StageOutcome(tr, stage) ==
    IF \E k \in 1..Len(tr) : tr[k][1] = stage /\ tr[k][2] # "start"
    THEN tr[CHOOSE k \in 1..Len(tr) : tr[k][1] = stage /\ tr[k][2] # "start"][2]
    ELSE "none"

\* the dictionaries a trigger operation may hand to its caller when it
\* returns at time now with trace tr; the stages of a full cycle ended at
\* times up to now
TriggerResults(e, tr, now) ==
    CASE e = "run_ingestion_cycle" ->
             {run_ingestion_cycle_result(StageOutcome(tr, "ingestion"), now)}
      [] e = "run_after_ingestion" ->
             {run_after_ingestion_result(StageOutcome(tr, "cleaning"), now)}
      [] e = "run_forecast_jobs" ->
             {run_forecast_jobs_result(StageOutcome(tr, "prediction"), now)}
      [] e = "orchestrate_agents" ->
             {orchestrate_agents_result(
                  run_ingestion_cycle_result(StageOutcome(tr, "ingestion"), t1),
                  IF StageOutcome(tr, "cleaning") = "none" THEN None
                  ELSE run_after_ingestion_result(StageOutcome(tr, "cleaning"), t2),
                  run_forecast_jobs_result(StageOutcome(tr, "prediction"), now),
                  t0) : t0 \in 0..now, t1 \in 0..now, t2 \in 0..now}

\* C26: whenever one of the four trigger operations returns to its caller,
\* on the success path, after a failure inside the agent, or rejected as
\* already running, what it returns carries a success/failure indication
\* and a timestamp.
C26_StructuredOutcome ==
    [][\A t \in Tasks :
          (pc[t] # "returned" /\ pc'[t] = "returned" /\ entry'[t] \in Routes)
             => \A res \in TriggerResults(entry'[t], trace'[t], utcnow) :
                   /\ "timestamp" \in DOMAIN res
                   /\ "success" \in DOMAIN res \/ "status" \in DOMAIN res]_vars

(***************************************************************************)
(* Properties of the features                                              *)
(***************************************************************************)
\* C27: for a segment with at least 12 buckets of history, the list
\* predict_segment passes to create_features is ordered newest first, the
\* "current" features are those of the most recent bucket, and the feature
\* vector is the one the training path computes from the same history.
C27_InferenceHistoryNewestFirst ==
    \A segment_id \in Segments :
       LET found == recent_history(segment_id, utcnow)
           handed == inference_history(segment_id, utcnow)
           features == create_features(handed)
       IN  Len(found) >= 12
              => /\ \A i, j \in 1..Len(handed) :
                       i < j => handed[i].timestamp_bucket >= handed[j].timestamp_bucket
                 /\ features.speed_current = found[1].speed_mph
                 /\ features.congestion_current = found[1].congestion_index
                 /\ features.has_incident = (IF found[1].incident_flag THEN 1 ELSE 0)
                 /\ features.has_transit_delay
                       = (IF found[1].transit_delay_flag THEN 1 ELSE 0)
                 /\ features = create_features(training_window(found, Len(found)))

(***************************************************************************)
(* Properties of the confidence of imputed speeds                          *)
(***************************************************************************)
\* the (segment, bucket) groups a fusion run at time now builds
RawGroups(now) ==
    GroupDocs(GroupDocs(<<>>, FindSince(raw_traffic_511, now - 60), "511ny"),
              FindSince(raw_traffic_dot, now - 60), "nyc_dot_opendata")

\* the speed stored for the group comes from impute_missing_speed: the
\* group has no speed to average, or cleaning rejects the average
SpeedWasImputed(seg_data) ==
    \/ seg_data.speeds = <<>>
    \/ clean_speed_value(Mean(Map(seg_data.speeds, R))) = NoneR

\* C28: a SegmentState whose speed_mph was produced by the imputation policy
\* carries the confidence score of an imputed speed (partial traffic credit
\* and the imputed penalty), whatever its transit and air-quality inputs.
C28_ImputedSpeedConfidence ==
    LET groups == RawGroups(utcnow)
    IN  \A k \in 1..Len(groups) :
           LET doc == SegmentDoc(groups[k], FALSE)
           IN  SpeedWasImputed(groups[k])
                  => doc.data_confidence_score
                        = calculate_confidence_score(FALSE, doc.transit_delay_flag,
                                                     doc.pm25_nearby # NoneR, "imputed")

(***************************************************************************)
(* Properties of the guards                                                *)
(***************************************************************************)
\* C29: a task passes the guard of a stage only in a step that finds the
\* flag false and leaves it true, and no two tasks are ever past the same
\* guard: the test and the assignment are one step of the event loop.
C29_AtomicCheckAndSet ==
    /\ [](\A s \in Stages : Cardinality({t \in Tasks : HoldsGuard(t, s)}) <= 1)
    /\ [][\A t \in Tasks :
             pc'[t] # pc[t]
                => \A s \in Stages :
                      (~HoldsGuard(t, s) /\ HoldsGuard(t, s)')
                         => /\ ~Flag(s)
                            /\ Flag(s)'
                            /\ \A u \in Tasks \ {t} : ~HoldsGuard(u, s)']_vars

\* while the forecast job is inside generate_predictions, the forecast
\* stage of an operator's full cycle found the flag set and was turned away
C29_Witness ==
    /\ pc["mcp_forecast_jobs"] = "generate_predictions"
    /\ entry["request"] = "orchestrate_agents"
    /\ pc["request"] = "returned"
    /\ StageOutcome(trace["request"], "prediction") = "skipped"
    /\ prediction_in_progress

(***************************************************************************)
(* Properties of the last-run times                                        *)
(***************************************************************************)
LastRun(s) ==
    CASE s = "ingestion"  -> last_ingestion_time
      [] s = "cleaning"   -> last_cleaning_time
      [] s = "prediction" -> last_prediction_time

\* what task t logged in this step
NewEvents(t) ==
    IF Len(trace'[t]) > Len(trace[t])
    THEN {trace'[t][k] : k \in (Len(trace[t]) + 1)..Len(trace'[t])}
    ELSE {}

====
